---- MODULE Spec2Model ----
(***************************************************************************)
(* State-machine model of the websocket-ide backend.                      *)
(*                                                                         *)
(* This part covers the document manager (src/file_system/               *)
(* document_manager.rs), the request handlers of the session multiplexer  *)
(* that drive it (src/server.rs: OpenFile, CloseFile, ChangeFile,         *)
(* SaveFile) and the watcher's event loop (src/file_system/              *)
(* watcher_manager.rs) with the directory cache and the event batcher it  *)
(* feeds.                                                                  *)
(*                                                                         *)
(* Text is a sequence of Unicode code points; a file on disk is a sequence *)
(* of bytes. String::len() is the UTF-8 byte length, chars().count() the  *)
(* number of code points.                                                  *)
(***************************************************************************)
EXTENDS Integers, Sequences, FiniteSets, TLC

(***************************************************************************)
(* Program constants (scaled) and model bounds                             *)
(***************************************************************************)

\* document_manager.rs:10  MAX_FILE_SIZE = 10 MiB, scaled to 4 bytes.
MAX_FILE_SIZE == 4

\* document_manager.rs:11  CACHE_SIZE_LIMIT = 1 MiB, scaled to 2 bytes.
CACHE_SIZE_LIMIT == 2

\* How far below zero the model lets current_cache_size wrap.
MaxDeficit == 4

\* Largest version a client proposes.
MaxVersion == 2

\* Longest text (in code points) a change may produce.
MaxLen == 2

\* Longest cache_queue the model lets grow.
MaxQueue == 3

\* Number of writes other programs make to workspace files.
MaxExternalWrites == 6

MaxWatchWrites == 1

MaxDirWrites == 2

None == "none"

\* HashMap: a function whose domain is the set of keys present.
EmptyMap == [k \in {} |-> None]

Has(m, k) == k \in DOMAIN m

Put(m, k, v) == [x \in DOMAIN m \cup {k} |-> IF x = k THEN v ELSE m[x]]

Remove(m, k) == [x \in DOMAIN m \ {k} |-> m[x]]

Paths == {"/ws/a", "/ws/b"}

Sessions == {1, 2}

Versions == 0 .. MaxVersion

(***************************************************************************)
(* Bytes, code points, UTF-8                                               *)
(***************************************************************************)

IsAscii(b) == b < 128

IsLead2(b) == b >= 194 /\ b <= 223

IsCont(b) == b >= 128 /\ b <= 191

\* UTF-8 byte length of one code point (code points below U+0800).
Utf8Len(c) == IF c < 128 THEN 1 ELSE 2

\* String::len(): byte length of the UTF-8 encoding.
RECURSIVE ByteLen(_)
ByteLen(s) == IF s = <<>> THEN 0 ELSE Utf8Len(Head(s)) + ByteLen(Tail(s))

\* The bytes tokio::fs::write puts on disk for a String.
RECURSIVE EncodeUtf8(_)
EncodeUtf8(s) ==
    IF s = <<>> THEN <<>>
    ELSE LET c == Head(s) IN
         IF c < 128 THEN <<c>> \o EncodeUtf8(Tail(s))
         ELSE <<192 + (c \div 64), 128 + (c % 64)>> \o EncodeUtf8(Tail(s))

RECURSIVE IsValidUtf8(_)
IsValidUtf8(bs) ==
    IF bs = <<>> THEN TRUE
    ELSE IF IsAscii(Head(bs)) THEN IsValidUtf8(Tail(bs))
    ELSE IF IsLead2(Head(bs)) /\ Len(bs) >= 2 /\ IsCont(bs[2])
         THEN IsValidUtf8(Tail(Tail(bs)))
    ELSE FALSE

RECURSIVE DecodeUtf8(_)
DecodeUtf8(bs) ==
    IF bs = <<>> THEN <<>>
    ELSE IF IsAscii(Head(bs)) THEN <<Head(bs)>> \o DecodeUtf8(Tail(bs))
    ELSE <<(bs[1] - 192) * 64 + (bs[2] - 128)>> \o DecodeUtf8(Tail(Tail(bs)))

\* windows-1252 maps each byte of the model's files to the code point of
\* the same number.
DecodeWindows1252(bs) == bs

AllAscii(bs) == \A i \in 1 .. Len(bs) : IsAscii(bs[i])

\* detect_encoding: the label the byte-level detector reports.
detect_encoding(bs) ==
    IF AllAscii(bs) THEN "windows-1252"
    ELSE IF IsValidUtf8(bs) THEN "UTF-8"
    ELSE "windows-1252"

\* Encoding::for_label(label).unwrap_or(UTF_8).decode(bytes)
Decode(bs) ==
    IF detect_encoding(bs) = "UTF-8" THEN DecodeUtf8(bs) ELSE DecodeWindows1252(bs)

\* detect_file_type: a 0x00 byte in the first 512 bytes classifies Binary.
\* Every file of the model is shorter than 512 bytes; paths handed in are
\* canonical, hence never symlinks.
detect_file_type(bs) ==
    IF \E i \in 1 .. Len(bs) : bs[i] = 0 THEN "Binary" ELSE "Text"

\* Files other programs put on disk.
FileContents ==
    { <<120>>,                  \* "x"
      <<233>>,                  \* Latin-1 e-acute: 1 byte, 2 as UTF-8
      <<120, 195, 169>>,        \* UTF-8 "x" e-acute: 3 bytes, above the cache limit
      <<0>>,                    \* binary
      <<120, 120, 120, 120, 120>> }  \* above MAX_FILE_SIZE

(***************************************************************************)
(* DiffChange sequences                                                    *)
(***************************************************************************)

\* Longest change sequence a client sends.
MaxChanges == 2

\* The changes a client sends: runs of one code point, every combination of
\* the two flags, and an added run of a non-ASCII code point.
DiffChange ==
    [value : {<<120>>}, added : BOOLEAN, removed : BOOLEAN]
        \cup {[value |-> <<233>>, added |-> TRUE, removed |-> FALSE]}

ChangeSeqs == UNION { [1 .. n -> DiffChange] : n \in 0 .. MaxChanges }

Unchanged == [value |-> <<120>>, added |-> FALSE, removed |-> FALSE]

Added == [value |-> <<120>>, added |-> TRUE, removed |-> FALSE]

Removed == [value |-> <<120>>, added |-> FALSE, removed |-> TRUE]

\* A few edits: clear the text, append, delete the first code point, and a
\* sequence whose unchanged runs overrun the text.
FewChangeSeqs ==
    { <<>>, <<Unchanged, Added>>, <<Removed>>, <<Unchanged, Unchanged, Unchanged>> }

\* An unchanged run copies the run's own value instead of the code points
\* at the cursor.
RECURSIVE ApplyChanges_copies_value(_, _, _, _)
ApplyChanges_copies_value(chars, changes, last_position, result) ==
    IF changes = <<>> THEN [ok |-> TRUE, result |-> result]
    ELSE LET change == Head(changes)
             n == Len(change.value)
         IN  IF change.removed
             THEN ApplyChanges_copies_value(chars, Tail(changes), last_position + n,
                                            result)
             ELSE IF last_position + n > Len(chars) /\ ~change.added
             THEN [ok |-> FALSE, result |-> result]
             ELSE ApplyChanges_copies_value(chars, Tail(changes),
                      IF change.added THEN last_position ELSE last_position + n,
                      result \o change.value)

\* An unchanged run that overruns the text copies what is left of it.
RECURSIVE ApplyChanges_clips(_, _, _, _)
ApplyChanges_clips(chars, changes, last_position, result) ==
    IF changes = <<>> THEN [ok |-> TRUE, result |-> result]
    ELSE LET change == Head(changes)
             n == Len(change.value)
         IN  IF change.removed
             THEN ApplyChanges_clips(chars, Tail(changes), last_position + n, result)
             ELSE IF ~change.added
             THEN ApplyChanges_clips(chars, Tail(changes), last_position + n,
                      result \o IF last_position + n > Len(chars)
                                THEN SubSeq(chars, last_position + 1, Len(chars))
                                ELSE SubSeq(chars, last_position + 1,
                                            last_position + n))
             ELSE ApplyChanges_clips(chars, Tail(changes), last_position,
                      result \o change.value)

\* The loop of change_document over the changes: a cursor last_position into
\* the code points of the current content and the text built so far.
RECURSIVE ApplyChanges(_, _, _, _)
ApplyChanges(chars, changes, last_position, result) ==
    IF changes = <<>> THEN [ok |-> TRUE, result |-> result]
    ELSE LET change == Head(changes)
             n == Len(change.value)
         IN  IF change.removed
             THEN ApplyChanges(chars, Tail(changes), last_position + n, result)
             ELSE IF ~change.added
             THEN IF last_position + n > Len(chars)
                  THEN [ok |-> FALSE, result |-> result]
                  ELSE ApplyChanges(chars, Tail(changes), last_position + n,
                           result \o SubSeq(chars, last_position + 1, last_position + n))
             ELSE ApplyChanges(chars, Tail(changes), last_position,
                      result \o change.value)

(***************************************************************************)
(* State                                                                   *)
(***************************************************************************)

VARIABLES
    overflow_checks,     \* build profile: TRUE = arithmetic overflow panics
    disk,                \* path -> bytes of the file
    document_states,     \* HashMap<PathBuf, DocumentState>
    cache,               \* HashMap<PathBuf, CacheEntry>, an entry being its content
    cache_queue,         \* VecDeque<PathBuf>
    current_cache_size,  \* u64 counter
    pc,                  \* session -> where its request handler stands
    ret,                 \* the last step: its document-manager call, the result,
                         \* and the ServerMessage it wrote to the client channel
    last_change,         \* history: path -> version returned and text produced by
                         \* the latest successful change_document
    scenario,            \* history: an open, change, save sequence on one path
                         \* that nothing else has touched
    ext_writes,          \* writes made by other programs so far
    notify_rx,           \* raw watcher events waiting for the event loop
    dir_cache,           \* DirectoryManager.cache: directory -> its listing and
                         \* the write count it was read at
    batcher_events,      \* EventBatcher.events
    last_emit_elapsed,   \* batch_timeout has passed since EventBatcher.last_emit
    batch_rx,            \* batches sent by the batcher, not yet forwarded
    fs_events,           \* session -> events waiting in its broadcast receiver
    event_buffer,        \* session -> event_buffer of handle_connection
    last_send_elapsed,   \* session -> 100 ms have passed since last_send
    sent,                \* session -> FileSystemEvents messages written so far
    overdue,             \* history: session -> an event has stayed in
                         \* event_buffer for a whole flush period
    burst,               \* history: "in" while no time has passed since the
                         \* first external write, "gap" once time has passed
                         \* after the writes, "broken" by a write after that
    dir_invalidated,     \* history: events whose parent directory the event
                         \* loop has removed from the directory cache
    dir_call,            \* session -> the load_directory call it is inside
    dir_reply,           \* session -> the latest DirectoryContent it was sent
    children,            \* LSP server processes spawned so far
    active_servers,      \* LspManager.active_servers: server name -> process
    lsp_init,            \* session -> the process its initialize_server started
    request_counter,     \* LspServer.request_counter
    pending_requests,    \* LspServer.pending_requests: id -> oneshot sender
    oneshot,             \* oneshot channel -> the response sent through it and
                         \* not yet received
    lsp_call,            \* session -> the send_request call it is inside
    calls,               \* history: send_request calls started so far
    timed_out,           \* history: ids of the calls that timed out
    lsp_ret,             \* the last step of the LSP client: what it did
    current_mode,        \* SearchManager.current_mode
    last_query,          \* SearchManager.last_query
    indexed,             \* the rows the matcher holds: none, or those of a mode
    is_searching,        \* SearchManager.is_searching
    search_ret,          \* what the last create_search did
    clock,               \* ticks of the poller's interval so far
    search_start,        \* search_start of the poller task
    search_began,        \* history: the tick before the latest create_search
    poll_ret,            \* what the poller's last tick did and emitted
    conn,                \* per session: is the loop of handle_connection running
    read_ended,          \* per session: has read.next() returned None
    conn_ret,            \* what the last iteration of a session loop did
    path_ret,            \* the last path resolution: its input and its result
    reader,              \* per terminal: the state of its reader task
    published,           \* the TerminalMessages sent on the broadcast channel
    init_elapsed,        \* per session: time waited for its initialize response
    init_ret,            \* how the last LspServer::initialize ended, and when
    lock_holder,         \* per RwLock of the SearchManager: the task holding it
    create_task,         \* the create_search call in progress: its line and locals
    results_at,          \* the line the poller's process_results call stands at
    term_call,           \* per session: the CreateTerminal request it is handling
    terminals,           \* the ids in the map of the TerminalManager
    term_seen,           \* per session: how many published messages it received
    wire                 \* per session: the terminal messages written to its client

vars == <<overflow_checks, disk, document_states, cache, cache_queue,
          current_cache_size, pc, ret, last_change, scenario, ext_writes,
          notify_rx, dir_cache,
          batcher_events, last_emit_elapsed, batch_rx, fs_events, event_buffer,
          last_send_elapsed, sent, overdue, burst, dir_invalidated, dir_call,
          dir_reply, children, active_servers, lsp_init, request_counter,
          pending_requests, oneshot, lsp_call, calls, timed_out, lsp_ret,
          current_mode, last_query, indexed, is_searching, search_ret, clock,
          search_start, search_began, poll_ret, conn, read_ended, conn_ret,
          path_ret, reader, published, init_elapsed, init_ret, lock_holder,
          create_task, results_at, term_call, terminals, term_seen, wire>>

docVars == <<disk, document_states, cache, cache_queue, current_cache_size>>

sessionEventVars == <<fs_events, event_buffer, last_send_elapsed, sent, overdue>>
dirVars == <<dir_cache, dir_invalidated, dir_call, dir_reply>>
lspVars == <<children, active_servers, lsp_init, request_counter,
             pending_requests, oneshot, lsp_call, calls, timed_out, lsp_ret>>
connVars == <<conn, read_ended, conn_ret>>
pathVars == <<path_ret>>
termVars == <<reader, published>>
initVars == <<init_elapsed, init_ret>>
lockVars == <<lock_holder, create_task, results_at>>
createVars == <<term_call, terminals, term_seen, wire>>
pollVars == <<clock, search_start, search_began, poll_ret>>
searchVars == <<current_mode, last_query, indexed, is_searching, search_ret,
                pollVars>>
watchVars == <<ext_writes, notify_rx, batcher_events, last_emit_elapsed, batch_rx, burst,
               sessionEventVars, dirVars>>

\* Sum of the byte lengths of all cached contents.
RECURSIVE SumBytes(_, _)
SumBytes(c, ps) ==
    IF ps = {} THEN 0
    ELSE LET p == CHOOSE x \in ps : TRUE
         IN  ByteLen(c[p]) + SumBytes(c, ps \ {p})

CacheTotal == SumBytes(cache, DOMAIN cache)

(***************************************************************************)
(* DocumentManager                                                         *)
(***************************************************************************)

\* current_cache_size is a u64 that the code only ever decreases, so without
\* overflow checks it wraps below zero and stays there. The model keeps the
\* counter as the integer n <= 0 that stands for the u64 value n mod 2^64:
\* wrapping_add and wrapping_sub are then + and -, and the u64 value is
\* 2^64 + n, above every size, whenever n < 0.
U64Above(n, limit) == n < 0 \/ n > limit

\* The eviction loop of cache_content. With overflow checks the subtraction
\* panics when it would go below zero; without them it wraps.
RECURSIVE EvictLoop(_, _, _, _)
EvictLoop(c, q, sz, len) ==
    IF U64Above(sz + len, CACHE_SIZE_LIMIT)
    THEN IF q = <<>>
         THEN [cache |-> c, queue |-> q, size |-> sz, panic |-> FALSE]
         ELSE LET old_path == Head(q) IN
              IF Has(c, old_path)
              THEN LET old_len == ByteLen(c[old_path])
                       c2 == Remove(c, old_path)
                   IN  IF overflow_checks /\ sz < old_len
                       THEN [cache |-> c2, queue |-> Tail(q), size |-> sz, panic |-> TRUE]
                       ELSE EvictLoop(c2, Tail(q), sz - old_len, len)
              ELSE EvictLoop(c, Tail(q), sz, len)
    ELSE [cache |-> c, queue |-> q, size |-> sz, panic |-> FALSE]

\* cache_content: evict, then insert the entry and push the path. The
\* counter is not increased.
cache_content(c, q, sz, path, content) ==
    LET e == EvictLoop(c, q, sz, ByteLen(content))
    IN  IF e.panic THEN e
        ELSE [cache |-> Put(e.cache, path, content),
              queue |-> Append(e.queue, path),
              size  |-> e.size,
              panic |-> FALSE]

\* invalidate_cache_for_file
invalidate_cache_for_file(c, q, sz, path) ==
    IF ~Has(c, path)
    THEN [cache |-> c, queue |-> q, size |-> sz, panic |-> FALSE]
    ELSE LET len == ByteLen(c[path])
             c2 == Remove(c, path)
         IN  IF overflow_checks /\ sz < len
             THEN [cache |-> c2, queue |-> q, size |-> sz, panic |-> TRUE]
             ELSE [cache |-> c2,
                   queue |-> SelectSeq(q, LAMBDA p : p # path),
                   size  |-> sz - len,
                   panic |-> FALSE]

\* get_document_content: the cached content, else read, decode and cache.
get_document_content(c, q, sz, d, path) ==
    LET same == [cache |-> c, queue |-> q, size |-> sz, panic |-> FALSE] IN
    IF Has(c, path)
    THEN same @@ [res |-> "Ok", content |-> c[path]]
    ELSE IF Len(d[path]) > MAX_FILE_SIZE
    THEN same @@ [res |-> "FileTooLarge", content |-> <<>>]
    ELSE IF detect_file_type(d[path]) = "Binary"
    THEN same @@ [res |-> "CannotReadBinary", content |-> <<>>]
    ELSE LET content == Decode(d[path]) IN
         IF Len(d[path]) <= CACHE_SIZE_LIMIT
         THEN LET k == cache_content(c, q, sz, path, content)
              IN  k @@ [res |-> IF k.panic THEN "panic" ELSE "Ok", content |-> content]
         ELSE same @@ [res |-> "Ok", content |-> content]

NewDocumentState == [is_open |-> TRUE, version |-> 0, is_dirty |-> FALSE]

\* open_file: the DocumentState is looked up or inserted first, then the
\* content is fetched; an error of the fetch is returned with `?`.
open_file(st, c, q, sz, d, path) ==
    LET st2 == IF Has(st, path) THEN st ELSE Put(st, path, NewDocumentState)
        g == get_document_content(c, q, sz, d, path)
    IN  [states |-> st2, cache |-> g.cache, queue |-> g.queue, size |-> g.size,
         res |-> g.res, content |-> g.content, version |-> st2[path].version]

\* tokio::fs::read_to_string: fails unless the bytes are valid UTF-8.
read_to_string(bs) ==
    IF IsValidUtf8(bs) THEN [ok |-> TRUE, text |-> DecodeUtf8(bs)]
    ELSE [ok |-> FALSE, text |-> <<>>]

\* The check lets a change through at the document's own version.
change_version_conflict_below(state_version, doc_version) == state_version > doc_version

\* The version check of change_document.
change_version_conflict(state_version, doc_version) == state_version >= doc_version

\* The version check of save_document.
save_version_conflict(state_version, doc_version) == state_version >= doc_version

\* The update marks the document dirty and leaves the version.
ChangedState_keeps_version(state, proposed) == [state EXCEPT !.is_dirty = TRUE]

\* The state update that ends a successful change_document.
ChangedState(state, proposed) ==
    [state EXCEPT !.version = state.version + 1, !.is_dirty = TRUE]

\* change_document. The states map is keyed by the uri as the client sent it.
change_document(st, c, q, sz, d, uri, version, changes) ==
    LET same == [states |-> st, cache |-> c, queue |-> q, size |-> sz,
                 version |-> 0, result |-> <<>>]
    IN
    IF ~Has(st, uri)
    THEN same @@ [res |-> "NotOpen"]
    ELSE IF change_version_conflict(st[uri].version, version)
    THEN same @@ [res |-> "VersionConflict"]
    ELSE LET cur == IF Has(c, uri) THEN [ok |-> TRUE, text |-> c[uri]]
                    ELSE read_to_string(d[uri])
         IN
         IF ~cur.ok THEN same @@ [res |-> "IoError"]
         ELSE LET a == ApplyChanges(cur.text, changes, 0, <<>>) IN
              IF ~a.ok THEN same @@ [res |-> "InvalidChange"]
              ELSE LET k == cache_content(c, q, sz, uri, a.result) IN
                   IF k.panic
                   THEN [states |-> st, cache |-> k.cache, queue |-> k.queue,
                         size |-> k.size, version |-> 0, result |-> a.result,
                         res |-> "panic"]
                   ELSE LET s2 == ChangedState(st[uri], version) IN
                        [states |-> [st EXCEPT ![uri] = s2], cache |-> k.cache,
                         queue |-> k.queue, size |-> k.size, version |-> s2.version,
                         result |-> a.result, res |-> "Ok"]

\* The state update that ends a successful save_document.
SavedState(state, proposed) == [state EXCEPT !.is_dirty = FALSE]

\* save_document: writes the cached content, never re-reads the file.
save_document(st, c, d, uri, version) ==
    LET same == [states |-> st, disk |-> d, version |-> 0] IN
    IF ~Has(st, uri)
    THEN same @@ [res |-> "NotOpen"]
    ELSE IF save_version_conflict(st[uri].version, version)
    THEN same @@ [res |-> "VersionConflict"]
    ELSE IF ~Has(c, uri)
    THEN same @@ [res |-> "NotInCache"]
    ELSE LET s2 == SavedState(st[uri], version) IN
         [states |-> [st EXCEPT ![uri] = s2],
          disk |-> [d EXCEPT ![uri] = EncodeUtf8(c[uri])],
          version |-> s2.version, res |-> "Ok"]

\* Closing drops the DocumentState.
close_file_removes(st, path) == Remove(st, path)

\* close_file
close_file(st, path) ==
    IF Has(st, path) THEN [st EXCEPT ![path].is_open = FALSE] ELSE st

(***************************************************************************)
(* Path resolution                                                         *)
(***************************************************************************)

\* get_full_path: join with the workspace root, canonicalize, validate.
get_full_path(uri) ==
    CASE uri \in {"/ws/a", "a"} -> "/ws/a"
      [] uri \in {"/ws/b"} -> "/ws/b"
      [] OTHER -> "ERR"

\* canonicalize_document_path: the same resolution, for a VersionedDocument.
canonicalize_document_path(uri) ==
    CASE uri \in {"/ws/a", "a"} -> "/ws/a"
      [] uri \in {"/ws/b"} -> "/ws/b"
      [] OTHER -> "ERR"

(***************************************************************************)
(* Sessions                                                                *)
(***************************************************************************)

Idle == [at |-> "idle", path |-> None, version |-> 0]

\* What a step of session s did: the document-manager call it made (op, the
\* path or uri handed in, the proposed version), the call's result and
\* returned version, and the ServerMessage written to the client ("none"
\* when nothing is written).
Ret(s, op, path, proposed, res, version, reply) ==
    [op |-> op, path |-> path, proposed |-> proposed, res |-> res,
     version |-> version, reply |-> reply]

NoRet == Ret(0, "none", None, 0, None, 0, "none")

\* The request failed before any document-manager call (invalid path, file
\* not open): an Error message is written.
Refused(s) == Ret(s, "none", None, 0, None, 0, "Error")

\* The message a handler writes for a call's result. A panic ends the
\* session task: nothing is written (a later connection takes its place).
ReplyOf(res, ok_reply) ==
    IF res = "Ok" THEN ok_reply ELSE IF res = "panic" THEN "none" ELSE "Error"

\* The workspace at startup: a text file and a binary file.
InitialDisk == [p \in Paths |-> IF p = "/ws/a" THEN <<120>> ELSE <<0>>]

\* The text a change sequence describes as a walk over a text: removed runs
\* are skipped, unchanged runs copied from the text, added runs inserted.
RECURSIVE Walk(_, _, _)
Walk(text, changes, cursor) ==
    IF changes = <<>> THEN <<>>
    ELSE LET run == Head(changes)
             n == Len(run.value)
         IN  IF run.removed THEN Walk(text, Tail(changes), cursor + n)
             ELSE IF run.added THEN run.value \o Walk(text, Tail(changes), cursor)
             ELSE SubSeq(text, cursor + 1, cursor + n)
                      \o Walk(text, Tail(changes), cursor + n)

NoScenario == [path |-> None, stage |-> "none", text |-> <<>>]

\* The path's document state, cache entry and file are as they were.
Untouched(p) ==
    /\ Has(document_states', p) = Has(document_states, p)
    /\ Has(document_states, p) => document_states'[p] = document_states[p]
    /\ Has(cache', p) = Has(cache, p)
    /\ Has(cache, p) => cache'[p] = cache[p]
    /\ disk'[p] = disk[p]

\* A step outside the sequence ends it when it touches the path.
KeepScenario ==
    scenario' = IF scenario.path # None /\ ~Untouched(scenario.path)
                THEN NoScenario ELSE scenario

\* A response of the language server, or any message of it that carries a
\* numeric id.
Message(id, payload) == [id |-> id, payload |-> payload]

NoMessage == Message(-1, "none")

\* What a step of the LSP client did: the operation, the session and the
\* request id it concerns, its result and the response handed over.
LspRet(op, s, id, res, response) ==
    [op |-> op, session |-> s, id |-> id, res |-> res, response |-> response]

NoLspRet == LspRet("none", 0, -1, "none", NoMessage)

\* What an iteration of the loop of handle_connection did: the select branch
\* taken, the frame read and the request decoded from it, the handler's
\* outcome, the tags of the messages written to the client, and whether a
\* write.send failed.
ConnRet(s, branch, frame, request, outcome, wrote, write_failed) ==
    [s |-> s, branch |-> branch, frame |-> frame, request |-> request,
     outcome |-> outcome, wrote |-> wrote, write_failed |-> write_failed]

NoConnRet == ConnRet(0, None, None, None, None, <<>>, FALSE)

\* A path, and a path string, by what the code reads of it: whether it
\* starts at the root of the file system and its components in order. The
\* empty string is the relative path of no components.
Path(abs, comps) == [abs |-> abs, comps |-> comps]

\* What a path resolution was given (the function, the string and the
\* target of the workspace's symbolic link at the time) and what it
\* returned: ok with the canonical path, or an error.
PathRet(fn, input, target, ok, path) ==
    [fn |-> fn, input |-> input, target |-> target, ok |-> ok, path |-> path]

NoPathRet == PathRet(None, Path(FALSE, <<>>), <<>>, FALSE, Path(FALSE, <<>>))

\* The ids of the terminals a client creates.
TerminalIds == {"t1", "t2"}

\* How a call of LspServer::initialize ended for session s: its result and
\* the time that had passed since the initialize request was sent.
InitRet(s, res, elapsed) == [s |-> s, res |-> res, elapsed |-> elapsed]

NoInitRet == InitRet(0, None, 0)

\* The CreateTerminal request a session is handling: the line it stands at
\* and the id of the terminal.
TermCall(at, id) == [at |-> at, id |-> id]

\* The session waits in its select.
NoTermCall == TermCall("select", "none")

\* The RwLocks of the SearchManager that two tasks may hold at once.
SearchLocks == {"current_mode", "searcher"}

\* A create_search call: the line it stands at and its locals.
CreateTask(at, query, new_mode, mode_changed, reparse) ==
    [at |-> at, query |-> query, new_mode |-> new_mode,
     mode_changed |-> mode_changed, reparse |-> reparse]

NoCreateTask == CreateTask("idle", <<>>, "Filename", FALSE, FALSE)

\* search_start of the poller when it is None.
NoStart == -1

\* What a tick of the poller did ("idle", "timeout", "running", "done") and
\* the SearchMessage::Results it sent, each with its number of items and its
\* is_complete flag.
PollRet(kind, messages) == [kind |-> kind, messages |-> messages]

\* The create_search calls so far, the arguments of the latest, what it did
\* to the matcher (restart, initialize_files, the append flag of reparse;
\* reparsed is false when the call returned before it) and its result.
SearchRet(n, query, mode, restart, reindex, reparsed, append, res) ==
    [n |-> n, query |-> query, mode |-> mode, restart |-> restart,
     reindex |-> reindex, reparsed |-> reparsed, append |-> append, res |-> res]

NoSearchRet == SearchRet(0, <<>>, "none", FALSE, FALSE, FALSE, FALSE, "none")

\* The server after construction: nothing open, nothing cached, nothing
\* watched yet. Either build profile.
Constructed ==
    /\ overflow_checks \in BOOLEAN
    /\ document_states = EmptyMap
    /\ cache = EmptyMap
    /\ cache_queue = <<>>
    /\ current_cache_size = 0
    /\ pc = [s \in Sessions |-> Idle]
    /\ ret = NoRet
    /\ last_change = EmptyMap
    /\ scenario = NoScenario
    /\ ext_writes = 0
    /\ notify_rx = <<>>
    /\ batcher_events = <<>>
    /\ last_emit_elapsed = FALSE
    /\ batch_rx = <<>>
    /\ fs_events = [s \in Sessions |-> <<>>]
    /\ event_buffer = [s \in Sessions |-> <<>>]
    /\ last_send_elapsed = [s \in Sessions |-> FALSE]
    /\ sent = [s \in Sessions |-> <<>>]
    /\ overdue = [s \in Sessions |-> FALSE]
    /\ burst = "in"
    /\ dir_invalidated = {}
    /\ dir_call = EmptyMap
    /\ dir_reply = EmptyMap
    /\ children = 0
    /\ active_servers = EmptyMap
    /\ lsp_init = EmptyMap
    /\ request_counter = 0
    /\ pending_requests = EmptyMap
    /\ oneshot = EmptyMap
    /\ lsp_call = EmptyMap
    /\ calls = 0
    /\ timed_out = {}
    /\ lsp_ret = NoLspRet
    /\ current_mode = "Filename"
    /\ last_query = <<>>
    /\ indexed = "none"
    /\ is_searching = FALSE
    /\ search_ret = NoSearchRet
    /\ clock = 0
    /\ search_start = NoStart
    /\ search_began = 0
    /\ poll_ret = PollRet("none", <<>>)
    /\ conn = [s \in Sessions |-> "open"]
    /\ read_ended = [s \in Sessions |-> FALSE]
    /\ conn_ret = NoConnRet
    /\ path_ret = NoPathRet
    /\ reader = [id \in TerminalIds |-> "none"]
    /\ published = <<>>
    /\ init_elapsed = EmptyMap
    /\ init_ret = NoInitRet
    /\ lock_holder = [l \in SearchLocks |-> "free"]
    /\ create_task = NoCreateTask
    /\ results_at = "idle"
    /\ term_call = [s \in Sessions |-> NoTermCall]
    /\ terminals = {}
    /\ term_seen = [s \in Sessions |-> 0]
    /\ wire = [s \in Sessions |-> <<>>]

\* The workspace root, the one directory of the model.
Root == "/ws"

\* DirectoryManager::read_directory of the workspace root: a node per file
\* with its size.
read_directory(d) == [p \in Paths |-> Len(d[p])]

\* A cache entry: the listing, and how many external writes had happened
\* when it was read.
Listing(d, n) == [nodes |-> read_directory(d), read_at |-> n]

\* DirectoryManager::init loads the workspace root into the cache.
Initialized == dir_cache = Put(EmptyMap, Root, Listing(disk, 0))

Init == Constructed /\ disk = InitialDisk /\ Initialized

\* OpenFile request (the file exists and is a regular file).
OpenFile(s, uri) ==
    /\ pc[s].at = "idle"
    /\ LET full_path == get_full_path(uri) IN
       IF full_path = "ERR"
       THEN /\ ret' = Refused(s)
            /\ UNCHANGED <<docVars, scenario>>
       ELSE LET o == open_file(document_states, cache, cache_queue,
                               current_cache_size, disk, full_path)
            IN  /\ Len(o.queue) <= MaxQueue
                /\ o.size >= -MaxDeficit
                /\ document_states' = o.states
                /\ cache' = o.cache
                /\ cache_queue' = o.queue
                /\ current_cache_size' = o.size
                /\ ret' = Ret(s, "open_file", full_path, 0, o.res, o.version,
                              ReplyOf(o.res, "DocumentContent"))
                /\ UNCHANGED disk
                /\ IF o.res = "Ok"
                   THEN scenario' = [path |-> full_path, stage |-> "opened",
                                     text |-> o.content]
                   ELSE KeepScenario
    /\ UNCHANGED <<overflow_checks, pc, last_change>>
    /\ UNCHANGED <<watchVars, lspVars, searchVars, connVars, pathVars, termVars, initVars, lockVars, createVars>>

\* CloseFile request, up to the LSP notification: the state is looked up
\* and a file that is not open is refused.
CloseFile(s, uri) ==
    /\ pc[s].at = "idle"
    /\ LET full_path == get_full_path(uri) IN
       IF full_path = "ERR" \/ ~Has(document_states, full_path)
          \/ ~document_states[full_path].is_open
       THEN /\ ret' = Refused(s)
            /\ pc' = pc
       ELSE /\ ret' = Ret(s, "get_document_state", full_path, 0, "Ok",
                          document_states[full_path].version, "none")
            /\ pc' = [pc EXCEPT ![s] = [at |-> "close_inv", path |-> full_path, version |-> 0]]
    /\ UNCHANGED <<overflow_checks, docVars, last_change, scenario>>
    /\ UNCHANGED <<watchVars, lspVars, searchVars, connVars, pathVars, termVars, initVars, lockVars, createVars>>

\* CloseFile: invalidate_document_cache
CloseInvalidate(s) ==
    /\ pc[s].at = "close_inv"
    /\ LET k == invalidate_cache_for_file(cache, cache_queue, current_cache_size,
                                          pc[s].path)
       IN  /\ k.size >= -MaxDeficit
           /\ cache' = k.cache
           /\ cache_queue' = k.queue
           /\ current_cache_size' = k.size
           /\ ret' = Ret(s, "invalidate_cache_for_file", pc[s].path, 0,
                         IF k.panic THEN "panic" ELSE "Ok", 0, "none")
           /\ pc' = [pc EXCEPT ![s] =
                        IF k.panic THEN Idle ELSE [pc[s] EXCEPT !.at = "close_fin"]]
    /\ UNCHANGED <<overflow_checks, disk, document_states, last_change>>
    /\ KeepScenario
    /\ UNCHANGED <<watchVars, lspVars, searchVars, connVars, pathVars, termVars, initVars, lockVars, createVars>>

\* CloseFile: close_file; the Success response is not written.
CloseFinish(s) ==
    /\ pc[s].at = "close_fin"
    /\ document_states' = close_file(document_states, pc[s].path)
    /\ ret' = Ret(s, "close_file", pc[s].path, 0, "Ok", 0, "none")
    /\ pc' = [pc EXCEPT ![s] = Idle]
    /\ UNCHANGED <<overflow_checks, disk, cache, cache_queue, current_cache_size,
                   last_change>>
    /\ KeepScenario
    /\ UNCHANGED <<watchVars, lspVars, searchVars, connVars, pathVars, termVars, initVars, lockVars, createVars>>

\* ChangeFile request: the path is canonicalized, but change_document gets
\* the document as the client sent it. The version and the changes of the
\* request are drawn where change_document first reads them; seqs are the
\* change sequences clients send.
ChangeFile(s, uri, seqs) ==
    /\ pc[s].at = "idle"
    /\ LET path == canonicalize_document_path(uri) IN
       IF path = "ERR"
       THEN /\ ret' = Refused(s)
            /\ pc' = pc
            /\ UNCHANGED <<docVars, last_change, scenario>>
       ELSE IF ~Has(document_states, uri)
       THEN /\ ret' = Ret(s, "change_document", uri, 0, "NotOpen", 0, "Error")
            /\ pc' = pc
            /\ UNCHANGED <<docVars, last_change, scenario>>
       ELSE \E version \in Versions :
            \E changes \in (IF change_version_conflict(document_states[uri].version,
                                                       version)
                            THEN {<<>>} ELSE seqs) :
            LET r == change_document(document_states, cache, cache_queue,
                                     current_cache_size, disk, uri, version, changes)
            IN  /\ Len(r.result) <= MaxLen
                /\ Len(r.queue) <= MaxQueue
                /\ r.size >= -MaxDeficit
                /\ document_states' = r.states
                /\ cache' = r.cache
                /\ cache_queue' = r.queue
                /\ current_cache_size' = r.size
                /\ ret' = Ret(s, "change_document", uri, version, r.res, r.version,
                              IF r.res = "Ok" THEN "none" ELSE ReplyOf(r.res, "none"))
                /\ pc' = IF r.res = "Ok"
                         THEN [pc EXCEPT ![s] =
                                 [at |-> "chg_get", path |-> path, version |-> r.version]]
                         ELSE pc
                /\ UNCHANGED disk
                /\ IF r.res = "Ok"
                   THEN /\ last_change' = Put(last_change, uri,
                                              [version |-> r.version, text |-> r.result])
                        /\ scenario' =
                              IF scenario.path = uri /\ scenario.stage = "opened"
                              THEN [path |-> uri, stage |-> "changed",
                                    text |-> Walk(scenario.text, changes, 0)]
                              ELSE NoScenario
                   ELSE /\ last_change' = last_change
                        /\ KeepScenario
    /\ UNCHANGED overflow_checks
    /\ UNCHANGED <<watchVars, lspVars, searchVars, connVars, pathVars, termVars, initVars, lockVars, createVars>>

\* ChangeFile: the content is fetched again for the LSP notification, then
\* ChangeSuccess is written.
ChangeGet(s) ==
    /\ pc[s].at = "chg_get"
    /\ LET g == get_document_content(cache, cache_queue, current_cache_size, disk,
                                     pc[s].path)
       IN  /\ Len(g.queue) <= MaxQueue
           /\ g.size >= -MaxDeficit
           /\ cache' = g.cache
           /\ cache_queue' = g.queue
           /\ current_cache_size' = g.size
           /\ ret' = Ret(s, "get_document_content", pc[s].path, 0, g.res,
                         IF g.res = "Ok" THEN pc[s].version ELSE 0,
                         ReplyOf(g.res, "ChangeSuccess"))
    /\ pc' = [pc EXCEPT ![s] = Idle]
    /\ UNCHANGED <<overflow_checks, disk, document_states, last_change>>
    /\ KeepScenario
    /\ UNCHANGED <<watchVars, lspVars, searchVars, connVars, pathVars, termVars, initVars, lockVars, createVars>>

\* SaveFile request: the content is fetched (read through the cache) before
\* save_document is called.
SaveFile(s, uri) ==
    /\ pc[s].at = "idle"
    /\ LET path == canonicalize_document_path(uri) IN
       IF path = "ERR"
       THEN /\ ret' = Refused(s)
            /\ pc' = pc
            /\ UNCHANGED <<docVars, scenario>>
       ELSE LET g == get_document_content(cache, cache_queue, current_cache_size,
                                          disk, path)
            IN  /\ Len(g.queue) <= MaxQueue
                /\ g.size >= -MaxDeficit
                /\ cache' = g.cache
                /\ cache_queue' = g.queue
                /\ current_cache_size' = g.size
                /\ ret' = Ret(s, "get_document_content", path, 0, g.res, 0,
                              IF g.res = "Ok" THEN "none" ELSE ReplyOf(g.res, "none"))
                /\ pc' = IF g.res = "Ok"
                         THEN [pc EXCEPT ![s] =
                                 [at |-> "save_doc", path |-> path, version |-> 0]]
                         ELSE pc
                /\ UNCHANGED <<disk, document_states>>
                /\ KeepScenario
    /\ UNCHANGED <<overflow_checks, last_change>>
    /\ UNCHANGED <<watchVars, lspVars, searchVars, connVars, pathVars, termVars, initVars, lockVars, createVars>>

\* SaveFile: save_document with the document as the client sent it (uri is
\* the spelling and version the version of the request being handled).
SaveDocument(s, uri, version) ==
    /\ pc[s].at = "save_doc"
    /\ canonicalize_document_path(uri) = pc[s].path
    /\ LET r == save_document(document_states, cache, disk, uri, version)
       IN  /\ document_states' = r.states
           /\ disk' = r.disk
           /\ ret' = Ret(s, "save_document", uri, version, r.res, r.version,
                         ReplyOf(r.res, "SaveSuccess"))
    /\ pc' = [pc EXCEPT ![s] = Idle]
    /\ UNCHANGED <<overflow_checks, cache, cache_queue, current_cache_size,
                   last_change>>
    /\ IF ret'.res = "Ok" /\ scenario.path = uri /\ scenario.stage = "changed"
       THEN scenario' = [scenario EXCEPT !.stage = "saved"]
       ELSE KeepScenario
    /\ UNCHANGED <<watchVars, lspVars, searchVars, connVars, pathVars, termVars, initVars, lockVars, createVars>>

(***************************************************************************)
(* The watcher                                                             *)
(***************************************************************************)

\* file_system/mod.rs:32  batch size 100, scaled.
BATCH_SIZE == 4

\* Another program rewrites a workspace file; the native watcher reports it.
ExternalWrite(path, bytes) ==
    /\ ext_writes < MaxExternalWrites
    /\ bytes # disk[path]
    /\ disk' = [disk EXCEPT ![path] = bytes]
    /\ ext_writes' = ext_writes + 1
    /\ notify_rx' = Append(notify_rx, [path |-> path, seq |-> ext_writes + 1])
    /\ ret' = NoRet
    /\ burst' = IF burst = "gap" THEN "broken" ELSE burst
    /\ UNCHANGED <<lspVars, searchVars, connVars, pathVars, termVars, initVars, lockVars, createVars, overflow_checks, document_states, cache, cache_queue,
                   current_cache_size, pc, last_change, batcher_events,
                   last_emit_elapsed, batch_rx, sessionEventVars, dirVars>>
    /\ KeepScenario

\* The emitted batch stays in the buffer.
add_event_keeps_buffer(events, event, elapsed) ==
    LET pushed == Append(events, event) IN
    IF Len(pushed) >= BATCH_SIZE \/ elapsed
    THEN [events |-> pushed, sent |-> <<pushed>>]
    ELSE [events |-> pushed, sent |-> <<>>]

\* EventBatcher::add_event; elapsed says whether batch_timeout has passed
\* since last_emit.
add_event(events, event, elapsed) ==
    LET pushed == Append(events, event) IN
    IF Len(pushed) >= BATCH_SIZE \/ elapsed
    THEN [events |-> <<>>, sent |-> <<pushed>>]
    ELSE [events |-> pushed, sent |-> <<>>]

\* DirectoryManager::invalidate_cache, the mutation: the entry stays.
invalidate_cache_keeps(entries, path) == entries

\* DirectoryManager::invalidate_cache.
invalidate_cache(entries, path) == Remove(entries, path)

\* One turn of the event loop of start_watching: the raw event becomes a
\* FileEvent, the directory cache entry of its parent is invalidated, the
\* event goes to the batcher. The document cache is not touched.
WatcherProcess ==
    /\ notify_rx # <<>>
    /\ notify_rx' = Tail(notify_rx)
    /\ dir_cache' = invalidate_cache(dir_cache, Root)
    /\ dir_invalidated' = IF ~Has(dir_cache', Root)
                          THEN dir_invalidated \cup {Head(notify_rx).seq}
                          ELSE dir_invalidated
    /\ LET b == add_event(batcher_events, Head(notify_rx), last_emit_elapsed)
       IN  /\ batcher_events' = b.events
           /\ batch_rx' = batch_rx \o b.sent
           /\ last_emit_elapsed' = (b.sent = <<>> /\ last_emit_elapsed)
    /\ ret' = Ret(0, "watcher", Head(notify_rx).path, 0, "Ok", 0, "none")
    /\ UNCHANGED <<lspVars, searchVars, connVars, pathVars, termVars, initVars, lockVars, createVars, overflow_checks, docVars, pc, last_change, scenario, ext_writes,
                   burst, sessionEventVars, dir_call, dir_reply>>

\* spawn_timeout_checker: a tick that finds events that have waited for
\* batch_timeout.
TimeoutChecker ==
    /\ batcher_events # <<>>
    /\ last_emit_elapsed
    /\ batch_rx' = Append(batch_rx, batcher_events)
    /\ batcher_events' = <<>>
    /\ last_emit_elapsed' = FALSE
    /\ ret' = NoRet
    /\ UNCHANGED <<lspVars, searchVars, connVars, pathVars, termVars, initVars, lockVars, createVars, overflow_checks, docVars, pc, last_change, scenario, ext_writes,
                   notify_rx, burst, sessionEventVars, dirVars>>

\* The forwarder task of WatcherManager::new: every event of the next batch
\* goes to the broadcast channel, that is to the receiver of every session.
\* The channel holds 100 events; the writes modelled never fill it.
Forwarder ==
    /\ batch_rx # <<>>
    /\ batch_rx' = Tail(batch_rx)
    /\ fs_events' = [s \in Sessions |-> fs_events[s] \o Head(batch_rx)]
    /\ ret' = NoRet
    /\ UNCHANGED <<lspVars, searchVars, connVars, pathVars, termVars, initVars, lockVars, createVars, overflow_checks, docVars, pc, last_change, scenario, ext_writes,
                   notify_rx, batcher_events, last_emit_elapsed, burst,
                   event_buffer, last_send_elapsed, sent, overdue, dirVars>>

\* server.rs:596  the session sends its buffer at 100 events, scaled.
FLUSH_SIZE == 4

\* The fs_events branch of the select loop of handle_connection: the event
\* is pushed; the buffer is sent when it is full or 100 ms have passed
\* since last_send. A session inside a request handler does not poll.
\* server.rs:594-606  the body of the fs_events branch: the buffer is taken
\* and last_send is reset whether or not write.send succeeds; sent records
\* the messages that were written.
fs_events_branch(s, event, write_ok) ==
    LET pushed == Append(event_buffer[s], event) IN
    IF Len(pushed) >= FLUSH_SIZE \/ last_send_elapsed[s]
    THEN /\ sent' = [sent EXCEPT ![s] = IF write_ok THEN Append(@, pushed) ELSE @]
         /\ event_buffer' = [event_buffer EXCEPT ![s] = <<>>]
         /\ last_send_elapsed' = [last_send_elapsed EXCEPT ![s] = FALSE]
    ELSE /\ event_buffer' = [event_buffer EXCEPT ![s] = pushed]
         /\ UNCHANGED <<sent, last_send_elapsed>>

FsEventRecv(s) ==
    /\ pc[s].at = "idle"
    /\ fs_events[s] # <<>>
    /\ fs_events' = [fs_events EXCEPT ![s] = Tail(@)]
    /\ fs_events_branch(s, Head(fs_events[s]), TRUE)
    /\ ret' = NoRet
    /\ UNCHANGED <<lspVars, searchVars, connVars, pathVars, termVars, initVars, lockVars, createVars, overflow_checks, docVars, pc, last_change, scenario, ext_writes,
                   notify_rx, batcher_events, last_emit_elapsed, batch_rx, burst,
                   overdue, dirVars>>

\* 100 ms pass, the batch timeout and the flush period alike, while no
\* task has a message to take: the watcher's channel, the batch channel
\* and the broadcast receivers are empty and no handler is running.
TimePasses ==
    /\ notify_rx = <<>> /\ batch_rx = <<>>
    /\ \A s \in Sessions : fs_events[s] = <<>> /\ pc[s].at = "idle"
    /\ last_emit_elapsed' = TRUE
    /\ last_send_elapsed' = [s \in Sessions |-> TRUE]
    /\ overdue' = [s \in Sessions |-> overdue[s] \/ event_buffer[s] # <<>>]
    /\ burst' = IF burst = "in" /\ ext_writes > 0 THEN "gap" ELSE burst
    /\ ret' = NoRet
    /\ UNCHANGED <<lspVars, searchVars, connVars, pathVars, termVars, initVars, lockVars, createVars, overflow_checks, docVars, pc, last_change, scenario, ext_writes,
                   notify_rx, batcher_events, batch_rx, fs_events, event_buffer,
                   sent, dirVars>>

\* The highest write count among the events the client of session s has
\* been sent; 0 when it has been sent none.
RECURSIVE MaxSeq(_)
MaxSeq(events) ==
    IF events = <<>> THEN 0
    ELSE LET m == MaxSeq(Tail(events))
         IN  IF Head(events).seq > m THEN Head(events).seq ELSE m

RECURSIVE Flatten(_)
Flatten(messages) ==
    IF messages = <<>> THEN <<>> ELSE Head(messages) \o Flatten(Tail(messages))

SeenBy(s) == MaxSeq(Flatten(sent[s]))

\* GetDirectory for the workspace root, up to the first await that lets
\* other tasks run: DirectoryManager::load_directory answers from the cache
\* when the entry is there; otherwise it reads the directory from disk and
\* has yet to insert what it read.
GetDirectory(s) ==
    /\ pc[s].at = "idle"
    /\ IF Has(dir_cache, Root)
       THEN /\ dir_reply' = Put(dir_reply, s,
                    [nodes |-> dir_cache[Root].nodes,
                     read_at |-> dir_cache[Root].read_at,
                     issued_after |-> SeenBy(s)])
            /\ UNCHANGED <<pc, dir_call>>
       ELSE /\ dir_call' = Put(dir_call, s,
                    [listing |-> Listing(disk, ext_writes),
                     issued_after |-> SeenBy(s)])
            /\ pc' = [pc EXCEPT ![s] = [at |-> "dir_insert", path |-> Root,
                                        version |-> 0]]
            /\ UNCHANGED dir_reply
    /\ ret' = NoRet
    /\ UNCHANGED <<lspVars, searchVars, connVars, pathVars, termVars, initVars, lockVars, createVars, overflow_checks, docVars, last_change, scenario, ext_writes,
                   notify_rx, batcher_events, last_emit_elapsed, batch_rx, burst,
                   sessionEventVars, dir_cache, dir_invalidated>>

\* The rest of load_directory after a miss: the listing read earlier is
\* inserted into the cache and returned; DirectoryContent is written.
DirInsert(s) ==
    /\ pc[s].at = "dir_insert"
    /\ dir_cache' = Put(dir_cache, Root, dir_call[s].listing)
    /\ dir_reply' = Put(dir_reply, s,
            [nodes |-> dir_call[s].listing.nodes,
             read_at |-> dir_call[s].listing.read_at,
             issued_after |-> dir_call[s].issued_after])
    /\ dir_call' = Remove(dir_call, s)
    /\ pc' = [pc EXCEPT ![s] = Idle]
    /\ ret' = NoRet
    /\ UNCHANGED <<lspVars, searchVars, connVars, pathVars, termVars, initVars, lockVars, createVars, overflow_checks, docVars, last_change, scenario, ext_writes,
                   notify_rx, batcher_events, last_emit_elapsed, batch_rx, burst,
                   sessionEventVars, dir_invalidated>>

(***************************************************************************)
(* The LSP client                                                          *)
(***************************************************************************)

\* Number of send_request calls; the u64 counter stays far from wrapping.
MaxCalls == 3

\* What the language server puts into a message besides the id.
Payloads == {"p", "q"}

\* The ids a message of the language server may carry: those the client can
\* have allocated and one it cannot.
MessageIds == 0 .. MaxCalls

\* request_counter.fetch_add(1), the mutation: the counter is only read.
fetch_add_loads(counter) == [id |-> counter, counter |-> counter]

\* request_counter.fetch_add(1, SeqCst): the old value is the id.
fetch_add(counter) == [id |-> counter, counter |-> counter + 1]

\* pending_requests.remove(&id), the mutation: the entry is only read.
remove_pending_gets(pending, id) == pending

\* pending_requests.write().await.remove(&id) in handle_messages.
remove_pending(pending, id) == Remove(pending, id)

\* The oneshot channels whose receiver a send_request call is awaiting.
Receivers == {lsp_call[s].chan : s \in DOMAIN lsp_call}

\* send_request up to its wait: an id is allocated, the sender of a fresh
\* oneshot channel is inserted under it and the request is written to the
\* server's stdin. When the write fails the call returns the error.
SendRequest(s, write_ok) ==
    /\ pc[s].at = "idle"
    /\ calls < MaxCalls
    /\ LET f == fetch_add(request_counter)
           chan == calls + 1
       IN  /\ request_counter' = f.counter
           /\ pending_requests' = Put(pending_requests, f.id, chan)
           /\ calls' = chan
           /\ IF write_ok
              THEN /\ lsp_call' = Put(lsp_call, s, [id |-> f.id, chan |-> chan])
                   /\ pc' = [pc EXCEPT ![s] = [at |-> "lsp_wait", path |-> None,
                                               version |-> 0]]
                   /\ lsp_ret' = LspRet("send_message", s, f.id, "Ok", NoMessage)
              ELSE /\ lsp_ret' = LspRet("send_request", s, f.id, "WriteFailed",
                                        NoMessage)
                   /\ UNCHANGED <<lsp_call, pc>>
    /\ ret' = NoRet
    /\ UNCHANGED <<overflow_checks, docVars, last_change, scenario, watchVars,
                   searchVars, connVars, pathVars, termVars, initVars, lockVars, createVars, children, active_servers, lsp_init, oneshot,
                   timed_out>>

\* handle_messages reads a message that carries a numeric id: the sender
\* stored under the id is removed and the message sent through it; the send
\* is lost when the receiver has been dropped. Without an entry nothing
\* happens.
HandleMessage(id, payload) ==
    /\ IF Has(pending_requests, id)
       THEN LET chan == pending_requests[id] IN
            /\ pending_requests' = remove_pending(pending_requests, id)
            /\ IF chan \in Receivers
               THEN /\ oneshot' = Put(oneshot, chan, Message(id, payload))
                    /\ lsp_ret' = LspRet("handle_messages", 0, id, "sent",
                                         Message(id, payload))
               ELSE /\ oneshot' = oneshot
                    /\ lsp_ret' = LspRet("handle_messages", 0, id, "dropped",
                                         Message(id, payload))
       ELSE /\ lsp_ret' = LspRet("handle_messages", 0, id, "ignored",
                                 Message(id, payload))
            /\ UNCHANGED <<pending_requests, oneshot>>
    /\ ret' = NoRet
    /\ UNCHANGED <<overflow_checks, docVars, pc, last_change, scenario, watchVars,
                   searchVars, connVars, pathVars, termVars, initVars, lockVars, createVars, children, active_servers, lsp_init,
                   request_counter, lsp_call, calls, timed_out>>

\* The wait of send_request ends with the response.
Complete(s) ==
    /\ pc[s].at = "lsp_wait"
    /\ Has(oneshot, lsp_call[s].chan)
    /\ lsp_ret' = LspRet("send_request", s, lsp_call[s].id, "Ok",
                         oneshot[lsp_call[s].chan])
    /\ oneshot' = Remove(oneshot, lsp_call[s].chan)
    /\ lsp_call' = Remove(lsp_call, s)
    /\ pc' = [pc EXCEPT ![s] = Idle]
    /\ ret' = NoRet
    /\ UNCHANGED <<overflow_checks, docVars, last_change, scenario, watchVars,
                   searchVars, connVars, pathVars, termVars, initVars, lockVars, createVars, children, active_servers, lsp_init,
                   request_counter, pending_requests, calls, timed_out>>

\* send_request without the 30 s timer, the mutation: a call whose response
\* does not come never returns.
Timeout_never_fires(s) == pc[s].at = "lsp_wait" /\ FALSE /\ UNCHANGED vars

\* The wait of send_request ends after 30 s without a response: the call
\* returns the error and drops the receiver. (The other error of the wait,
\* a sender dropped unused, needs the LspServer itself to be dropped: senders
\* leave the map only in handle_messages, which uses them.)
Timeout(s) ==
    /\ pc[s].at = "lsp_wait"
    /\ ~Has(oneshot, lsp_call[s].chan)
    /\ lsp_ret' = LspRet("send_request", s, lsp_call[s].id, "Timeout", NoMessage)
    /\ timed_out' = timed_out \cup {lsp_call[s].id}
    /\ lsp_call' = Remove(lsp_call, s)
    /\ pc' = [pc EXCEPT ![s] = Idle]
    /\ ret' = NoRet
    /\ UNCHANGED <<overflow_checks, docVars, last_change, scenario, watchVars,
                   searchVars, connVars, pathVars, termVars, initVars, lockVars, createVars, children, active_servers, lsp_init,
                   request_counter, pending_requests, oneshot, calls>>

\* Number of language server processes spawned.
MaxChildren == 4

\* The one configured server; every file of the model has an extension
\* mapped to it.
ServerName == "rust-analyzer"

\* LspManager::get_server up to the first await inside initialize_server
\* that lets other tasks run: the live session is returned when
\* active_servers has one under the name; otherwise a process is spawned and
\* LspServer::initialize begins.
GetServer(s) ==
    /\ pc[s].at = "idle"
    /\ IF Has(active_servers, ServerName)
       THEN /\ lsp_ret' = LspRet("get_server", s, active_servers[ServerName],
                                 "Existing", NoMessage)
            /\ UNCHANGED <<children, lsp_init, pc>>
       ELSE /\ children < MaxChildren
            /\ children' = children + 1
            /\ lsp_init' = Put(lsp_init, s, children + 1)
            /\ pc' = [pc EXCEPT ![s] = [at |-> "lsp_init", path |-> None,
                                        version |-> 0]]
            /\ lsp_ret' = LspRet("spawn", s, children + 1, "Ok", NoMessage)
    /\ ret' = NoRet
    /\ UNCHANGED <<overflow_checks, docVars, last_change, scenario, watchVars,
                   searchVars, connVars, pathVars, termVars, initVars, lockVars, createVars, active_servers, request_counter,
                   pending_requests, oneshot, lsp_call, calls, timed_out>>

\* The rest of initialize_server: LspServer::initialize has failed and
\* get_server returns None, or it has succeeded and the session is inserted
\* into active_servers under the name.
InitializeServer(s, ok) ==
    /\ pc[s].at = "lsp_init"
    /\ IF ok
       THEN /\ active_servers' = Put(active_servers, ServerName, lsp_init[s])
            /\ lsp_ret' = LspRet("get_server", s, lsp_init[s], "Initialized",
                                 NoMessage)
       ELSE /\ lsp_ret' = LspRet("get_server", s, lsp_init[s], "Failed", NoMessage)
            /\ UNCHANGED active_servers
    /\ lsp_init' = Remove(lsp_init, s)
    /\ pc' = [pc EXCEPT ![s] = Idle]
    /\ ret' = NoRet
    /\ UNCHANGED <<overflow_checks, docVars, last_change, scenario, watchVars,
                   searchVars, connVars, pathVars, termVars, initVars, lockVars, createVars, children, request_counter, pending_requests,
                   oneshot, lsp_call, calls, timed_out>>

(***************************************************************************)
(* The search manager                                                      *)
(***************************************************************************)

\* Number of create_search calls.
MaxSearches == 3

\* Queries, as sequences of characters.
Queries == {<<"a">>, <<"a", "b">>, <<"b">>}

\* str::starts_with.
starts_with(query, prefix) ==
    Len(prefix) <= Len(query) /\ SubSeq(query, 1, Len(prefix)) = prefix

\* should_reparse of create_search; last is last_query, empty for None and
\* holding the query for Some.
should_reparse(last, query, mode_changed) ==
    IF last # <<>> THEN starts_with(query, last[1]) /\ ~mode_changed ELSE FALSE

\* SearchManager::create_search, which holds the write locks of
\* current_mode and last_query from start to end; init_ok says whether
\* initialize_files walks the workspace without an error.
create_search(query, search_content, init_ok) ==
    LET new_mode == IF search_content THEN "Content" ELSE "Filename"
        mode_changed == current_mode # new_mode
        append == should_reparse(last_query, query, mode_changed)
    IN  /\ search_ret.n < MaxSearches
        /\ current_mode' = new_mode
        /\ search_began' = clock
        /\ UNCHANGED <<clock, search_start, poll_ret>>
        /\ IF mode_changed
           THEN IF init_ok
                THEN /\ indexed' = new_mode
                     /\ last_query' = <<query>>
                     /\ is_searching' = TRUE
                     /\ search_ret' = SearchRet(search_ret.n + 1, query, new_mode,
                                                TRUE, TRUE, TRUE, FALSE, "Ok")
                ELSE /\ indexed' = "none"
                     /\ search_ret' = SearchRet(search_ret.n + 1, query, new_mode,
                                                TRUE, FALSE, FALSE, FALSE, "Err")
                     /\ UNCHANGED <<last_query, is_searching>>
           ELSE /\ last_query' = <<query>>
                /\ is_searching' = TRUE
                /\ search_ret' = SearchRet(search_ret.n + 1, query, new_mode,
                                           FALSE, FALSE, TRUE, append, "Ok")
                /\ UNCHANGED indexed
        /\ ret' = NoRet
        /\ UNCHANGED <<overflow_checks, docVars, pc, last_change, scenario,
                       watchVars, lspVars, connVars, pathVars, termVars, initVars, lockVars, createVars>>

\* SearchManager::close_search: the matcher is restarted and loses its rows.
close_search ==
    /\ is_searching
    /\ is_searching' = FALSE
    /\ indexed' = "none"
    /\ ret' = NoRet
    /\ UNCHANGED <<overflow_checks, docVars, pc, last_change, scenario, watchVars,
                   lspVars, connVars, pathVars, termVars, initVars, lockVars, createVars, current_mode, last_query, search_ret, pollVars>>

\* search_manager.rs:14  results go out in batches of 50, scaled.
SEARCH_BATCH_SIZE == 2

\* search_manager.rs:16-17  the 10 s timeout in poll intervals of 100 ms,
\* scaled.
SEARCH_TIMEOUT_POLLS == 2

\* Number of ticks of the poller.
MaxClock == 6

\* Number of rows the matcher reports as matched.
MaxMatches == 4

\* The loop over the snapshot in process_results: i items are still to be
\* pushed, batch holds the items pushed and not yet sent.
RECURSIVE EmitBatches(_, _, _)
EmitBatches(i, batch, is_done) ==
    IF i = 0
    THEN IF batch > 0
         THEN <<[items |-> batch, is_complete |-> is_done]>>
         ELSE <<>>
    ELSE IF batch + 1 >= SEARCH_BATCH_SIZE
         THEN <<[items |-> batch + 1, is_complete |-> FALSE]>>
                  \o EmitBatches(i - 1, 0, is_done)
         ELSE EmitBatches(i - 1, batch + 1, is_done)

\* The messages SearchManager::process_results sends for a snapshot with
\* matched_count matched rows.
process_results(matched_count, is_done) ==
    IF matched_count > 0
    THEN EmitBatches(matched_count, 0, is_done)
    ELSE IF is_done
         THEN <<[items |-> 0, is_complete |-> TRUE]>>
         ELSE <<>>

\* One tick of the poller task of SearchManager::new; matched_count and
\* running are what the matcher reports at this tick.
Poll(matched_count, running) ==
    /\ clock < MaxClock
    /\ clock' = clock + 1
    /\ IF is_searching
       THEN LET start == IF search_start = NoStart THEN clock' ELSE search_start IN
            /\ search_start' = start
            /\ IF clock' - start > SEARCH_TIMEOUT_POLLS
               THEN /\ is_searching' = FALSE
                    /\ poll_ret' = PollRet("timeout", <<>>)
               ELSE /\ is_searching' = running
                    /\ poll_ret' = PollRet(IF running THEN "running" ELSE "done",
                                           process_results(matched_count, ~running))
       ELSE /\ search_start' = NoStart
            /\ poll_ret' = PollRet("idle", <<>>)
            /\ UNCHANGED is_searching
    /\ ret' = NoRet
    /\ UNCHANGED <<overflow_checks, docVars, pc, last_change, scenario, watchVars,
                   lspVars, connVars, pathVars, termVars, initVars, lockVars, createVars, current_mode, last_query, indexed, search_ret,
                   search_began>>

\* Spellings a client may send: the canonical absolute path of the text
\* file, its path relative to the workspace root, and a path that lies
\* outside the workspace.
DocUris == {"/ws/a", "a", "/out"}

Next ==
    \/ \E s \in Sessions, uri \in DocUris : OpenFile(s, uri)
    \/ \E s \in Sessions, uri \in DocUris : CloseFile(s, uri)
    \/ \E s \in Sessions : CloseInvalidate(s)
    \/ \E s \in Sessions : CloseFinish(s)
    \/ \E s \in Sessions, uri \in DocUris : ChangeFile(s, uri, FewChangeSeqs)
    \/ \E s \in Sessions : ChangeGet(s)
    \/ \E s \in Sessions, uri \in DocUris : SaveFile(s, uri)
    \/ \E s \in Sessions, uri \in DocUris, version \in Versions :
          SaveDocument(s, uri, version)

\* Two sessions working on one document.
Spec == Init /\ [][Next]_vars

\* The files a workspace starts with: text, Latin-1 text, binary.
InitialFiles == {<<120>>, <<233>>, <<0>>}

InitFiles == Constructed /\ disk \in [Paths -> InitialFiles] /\ Initialized

NextFiles ==
    \/ \E uri \in Paths : OpenFile(1, uri)
    \/ \E uri \in Paths : CloseFile(1, uri)
    \/ CloseInvalidate(1)
    \/ CloseFinish(1)
    \/ \E uri \in Paths : SaveFile(1, uri)
    \/ \E uri \in Paths, version \in Versions : SaveDocument(1, uri, version)

\* One session opening, saving and closing two files of any kind.
SpecFiles == InitFiles /\ [][NextFiles]_vars

\* Text files: ASCII, Latin-1, and UTF-8 of a size above the cache limit.
TextFiles == {<<120, 120>>, <<233>>, <<120, 195, 169>>}

InitText ==
    /\ Constructed
    /\ \E bytes \in TextFiles : disk = [InitialDisk EXCEPT !["/ws/a"] = bytes]
    /\ Initialized

NextText ==
    \/ OpenFile(1, "/ws/a")
    \/ ChangeFile(1, "/ws/a", ChangeSeqs)
    \/ ChangeGet(1)
    \/ SaveFile(1, "/ws/a")
    \/ \E version \in Versions : SaveDocument(1, "/ws/a", version)

\* One session editing one text file with every change sequence.
SpecText == InitText /\ [][NextText]_vars

NextWatch ==
    \/ \E uri \in Paths : OpenFile(1, uri)
    \/ \E path \in Paths, bytes \in FileContents :
          ext_writes < MaxWatchWrites /\ ExternalWrite(path, bytes)
    \/ WatcherProcess
    \/ TimeoutChecker
    \/ TimePasses

\* One session reading files that other programs rewrite, and the watcher.
SpecWatch == Init /\ [][NextWatch]_vars

\* What other programs write in the specifications about events: the file
\* /ws/a grows and shrinks.
EventContents == {<<120>>, <<120, 120>>}

NextEvents ==
    \/ \E bytes \in EventContents : ExternalWrite("/ws/a", bytes)
    \/ WatcherProcess
    \/ TimeoutChecker
    \/ Forwarder
    \/ \E s \in Sessions : FsEventRecv(s)
    \/ TimePasses

\* Two connected sessions, the watcher pipeline and the passing of time.
SpecEvents == Init /\ [][NextEvents]_vars

NextDir ==
    \/ \E bytes \in EventContents :
          ext_writes < MaxDirWrites /\ ExternalWrite("/ws/a", bytes)
    \/ WatcherProcess
    \/ TimeoutChecker
    \/ Forwarder
    \/ \E s \in Sessions : FsEventRecv(s)
    \/ TimePasses
    \/ \E s \in Sessions : GetDirectory(s)
    \/ \E s \in Sessions : DirInsert(s)

\* Two sessions listing the workspace root while other programs write.
SpecDir == Init /\ [][NextDir]_vars

NextLsp ==
    \/ \E s \in Sessions, write_ok \in BOOLEAN : SendRequest(s, write_ok)
    \/ \E id \in MessageIds, payload \in Payloads : HandleMessage(id, payload)
    \/ \E s \in Sessions : Complete(s)
    \/ \E s \in Sessions : Timeout(s)

\* Two sessions sending requests to one language server that answers with
\* any id, in any order, or not at all.
SpecLsp == Init /\ [][NextLsp]_vars

\* The same, with the runtime waking every waiting call whose response has
\* come or whose 30 s are over.
SpecLspFair ==
    /\ SpecLsp
    /\ \A s \in Sessions : WF_vars(Complete(s) \/ Timeout(s))

NextLspStart ==
    \/ \E s \in Sessions : GetServer(s)
    \/ \E s \in Sessions, ok \in BOOLEAN : InitializeServer(s, ok)

\* Two sessions asking for the language server of their files.
SpecLspStart == Init /\ [][NextLspStart]_vars

NextSearch ==
    \/ \E query \in Queries, search_content \in BOOLEAN, init_ok \in BOOLEAN :
          create_search(query, search_content, init_ok)
    \/ close_search

\* Clients searching and cancelling searches.
SpecSearch == Init /\ [][NextSearch]_vars

NextPoll ==
    \/ \E search_content \in BOOLEAN : create_search(<<"a">>, search_content, TRUE)
    \/ close_search
    \/ \E matched_count \in 0 .. MaxMatches, running \in BOOLEAN :
          Poll(matched_count, running)

\* Searches of one query and the poller that reports their results.
SpecPoll == Init /\ [][NextPoll]_vars

(***************************************************************************)
(* The session loop: Server::handle_connection and the reply path of       *)
(* Server::handle_client_message (server.rs:186-654).                      *)
(***************************************************************************)

\* What read.next() can yield: Some(Ok(Message::Text)), Some(Ok(Close)),
\* Some(Ok(any other frame)), Some(Err(_)) and None, the end of the stream.
Frames == {"Text", "Close", "Other", "Err", "End"}

\* server.rs:34-87  the variants of ClientMessage that the handler matches.
Requests ==
    {"GetDirectory", "RefreshDirectory", "CloseFile", "OpenFile", "ChangeFile",
     "SaveFile", "Completion", "Hover", "Definition", "CreateTerminal",
     "WriteTerminal", "ResizeTerminal", "CloseTerminal", "Search",
     "CancelSearch"}

\* server.rs:196-535  what the arm of a request can evaluate to: the tag of
\* a ServerMessage ("Reply" stands for every tag but Success and Error),
\* "early_error" when the arm writes an Error itself and returns
\* (CloseFile of a file that is not open, ChangeFile and SaveFile of an
\* invalid document path), and "Err" when a ? leaves the handler
\* (get_document_state and get_server in CloseFile).
Outcomes(request) ==
    CASE request \in {"WriteTerminal", "ResizeTerminal", "Search"} ->
            {"Success", "Error"}
      [] request = "CancelSearch" -> {"Success"}
      [] request = "CloseFile" -> {"Success", "Error", "early_error", "Err"}
      [] request \in {"ChangeFile", "SaveFile"} ->
            {"Reply", "Error", "early_error"}
      [] OTHER -> {"Reply", "Error"}

is_success_never(response) == FALSE

\* server.rs:538  matches!(response, ServerMessage::Success {})
is_success(response) == response = "Success"

\* write.send(Message::Text(..)).await? : the message is written, or the
\* error leaves the function.
send(tag, write_ok) ==
    IF write_ok
    THEN [res |-> "Ok", wrote |-> <<tag>>, write_failed |-> FALSE]
    ELSE [res |-> "Err", wrote |-> <<>>, write_failed |-> TRUE]

handle_client_message_swallows(outcome, write_ok) ==
    [res |-> "Ok", wrote |-> <<>>, write_failed |-> FALSE]

\* server.rs:186-545  handle_client_message from the value of its match on:
\* a Success response returns without writing, every other response is
\* serialized and written.
handle_client_message(outcome, write_ok) ==
    CASE outcome = "Err" ->
            [res |-> "Err", wrote |-> <<>>, write_failed |-> FALSE]
      [] outcome = "early_error" -> send("Error", write_ok)
      [] OTHER ->
            IF is_success(outcome)
            THEN [res |-> "Ok", wrote |-> <<>>, write_failed |-> FALSE]
            ELSE send(outcome, write_ok)

\* server.rs:568-582  a decoded request: when the handler returns Err the
\* loop writes Error{"Error processing request: .."} itself, and the ? on
\* that write ends the loop when it fails too.
handle_text(outcome, write_ok, retry_ok) ==
    LET h == handle_client_message(outcome, write_ok) IN
    IF h.res = "Ok"
    THEN [open |-> TRUE, wrote |-> h.wrote, write_failed |-> FALSE]
    ELSE [open |-> retry_ok,
          wrote |-> IF retry_ok THEN <<"Error">> ELSE <<>>,
          write_failed |-> h.write_failed \/ ~retry_ok]

\* server.rs:582-589  a text frame that is not a ClientMessage.
handle_undecodable(write_ok) ==
    [open |-> write_ok,
     wrote |-> IF write_ok THEN <<"Error">> ELSE <<>>,
     write_failed |-> ~write_ok]

\* server.rs:563-591  the read.next() branch of the select. The pattern
\* Some(msg) does not match None: the branch is disabled and the select
\* waits on the three receivers.
ReadNext(s, frame, decoded, request, outcome, write_ok, retry_ok) ==
    /\ conn[s] = "open"
    /\ ~read_ended[s]
    /\ (frame = "Text" /\ decoded) => outcome \in Outcomes(request)
    /\ CASE frame = "End" ->
              /\ read_ended' = [read_ended EXCEPT ![s] = TRUE]
              /\ conn' = conn
              /\ conn_ret' = ConnRet(s, "read", frame, None, None, <<>>, FALSE)
         [] frame \in {"Err", "Close"} ->
              /\ conn' = [conn EXCEPT ![s] = "closed"]
              /\ read_ended' = read_ended
              /\ conn_ret' = ConnRet(s, "read", frame, None, None, <<>>, FALSE)
         [] frame = "Other" ->
              /\ UNCHANGED <<conn, read_ended>>
              /\ conn_ret' = ConnRet(s, "read", frame, None, None, <<>>, FALSE)
         [] frame = "Text" ->
              LET r == IF decoded THEN handle_text(outcome, write_ok, retry_ok)
                       ELSE handle_undecodable(write_ok)
              IN  /\ conn' = [conn EXCEPT ![s] =
                                 IF r.open THEN "open" ELSE "closed"]
                  /\ read_ended' = read_ended
                  /\ conn_ret' = ConnRet(s, "read", frame,
                                         IF decoded THEN request ELSE None,
                                         IF decoded THEN outcome
                                         ELSE "undecodable",
                                         r.wrote, r.write_failed)
    /\ ret' = NoRet
    /\ UNCHANGED <<pathVars, termVars, initVars, lockVars, createVars, watchVars, lspVars, searchVars,
                   overflow_checks, docVars, pc, last_change, scenario>>

\* The events a session receives from the broadcast of the file system.
PushedEvents == {[path |-> "/ws/a", seq |-> 1]}

\* server.rs:592-607  the fs_events branch: let _ = write.send(..) drops a
\* failure of the write.
FsEventsPush(s, event, write_ok) ==
    /\ conn[s] = "open"
    /\ fs_events_branch(s, event, write_ok)
    /\ LET flushed == \/ Len(event_buffer[s]) + 1 >= FLUSH_SIZE
                      \/ last_send_elapsed[s]
       IN  conn_ret' = ConnRet(s, "fs_events", None, None, None,
                               IF flushed /\ write_ok
                               THEN <<"FileSystemEvents">> ELSE <<>>,
                               flushed /\ ~write_ok)
    /\ ret' = NoRet
    /\ UNCHANGED <<pathVars, termVars, initVars, lockVars, createVars, conn, read_ended, lspVars, searchVars, overflow_checks,
                   docVars, pc, last_change, scenario, ext_writes, notify_rx,
                   batcher_events, last_emit_elapsed, batch_rx, burst,
                   fs_events, overdue, dirVars>>

\* terminal/types.rs:11-28  the variants of TerminalMessage.
TerminalMessages == {"Input", "Output", "Resize", "Error"}

\* server.rs:608-629  the terminal_events branch: Output and Error are
\* pushed with let _ = write.send(..), the other variants are only logged.
TerminalEventsPush(s, term_msg, write_ok) ==
    /\ conn[s] = "open"
    /\ LET pushes == term_msg \in {"Output", "Error"}
           tag == IF term_msg = "Output" THEN "TerminalOutput"
                  ELSE "TerminalError"
       IN  conn_ret' = ConnRet(s, "terminal_events", None, None, None,
                               IF pushes /\ write_ok THEN <<tag>> ELSE <<>>,
                               pushes /\ ~write_ok)
    /\ ret' = NoRet
    /\ UNCHANGED <<pathVars, termVars, initVars, lockVars, createVars, conn, read_ended, watchVars, lspVars, searchVars,
                   overflow_checks, docVars, pc, last_change, scenario>>

\* search/types.rs:48-58  the variants of SearchMessage.
SearchMessages == {"Results", "Error"}

\* server.rs:630-651  the search_events branch: write.send(..).await? ends
\* the loop when the write fails.
SearchEventsPush(s, search_msg, write_ok) ==
    /\ conn[s] = "open"
    /\ LET tag == IF search_msg = "Results" THEN "SearchResults" ELSE "Error"
       IN  conn_ret' = ConnRet(s, "search_events", None, None, None,
                               IF write_ok THEN <<tag>> ELSE <<>>, ~write_ok)
    /\ conn' = [conn EXCEPT ![s] = IF write_ok THEN "open" ELSE "closed"]
    /\ ret' = NoRet
    /\ UNCHANGED <<pathVars, termVars, initVars, lockVars, createVars, read_ended, watchVars, lspVars, searchVars,
                   overflow_checks, docVars, pc, last_change, scenario>>

\* The session whose connection is followed.
FollowedSession == 1

\* The FileSystemEvents messages a followed session is sent at most.
MaxWire == 1

NextConn ==
    \/ \E frame \in Frames \ {"Text"} :
          ReadNext(FollowedSession, frame, FALSE, None, None, TRUE, TRUE)
    \/ \E write_ok \in BOOLEAN :
          ReadNext(FollowedSession, "Text", FALSE, None, None, write_ok, TRUE)
    \/ \E request \in Requests :
          \E outcome \in Outcomes(request), write_ok, retry_ok \in BOOLEAN :
             ReadNext(FollowedSession, "Text", TRUE, request, outcome,
                      write_ok, retry_ok)
    \/ \E event \in PushedEvents, write_ok \in BOOLEAN :
          /\ Len(sent[FollowedSession]) < MaxWire
          /\ FsEventsPush(FollowedSession, event, write_ok)
    \/ \E term_msg \in TerminalMessages, write_ok \in BOOLEAN :
          TerminalEventsPush(FollowedSession, term_msg, write_ok)
    \/ \E search_msg \in SearchMessages, write_ok \in BOOLEAN :
          SearchEventsPush(FollowedSession, search_msg, write_ok)
    \/ TimePasses

SpecConn == Init /\ [][NextConn]_vars

(***************************************************************************)
(* Path resolution against the workspace root (utils/path_utils.rs).       *)
(***************************************************************************)

\* The names a path is made of: the workspace directory, a sibling whose
\* name begins with the workspace's name, a file, a directory outside the
\* workspace, a symbolic link inside the workspace, and the parent.
Components == {"ws", "ws2", "a", "out", "l", ".."}

\* The longest path string a client sends, in components.
MaxDepth == 3

\* The characters of a name.
Chars(c) ==
    CASE c = "ws" -> <<"w", "s">>
      [] c = "ws2" -> <<"w", "s", "2">>
      [] c = "a" -> <<"a">>
      [] c = "out" -> <<"o", "u", "t">>
      [] c = "l" -> <<"l">>
      [] OTHER -> <<".", ".">>

RECURSIVE JoinChars(_)
JoinChars(comps) ==
    IF comps = <<>> THEN <<>>
    ELSE IF Len(comps) = 1 THEN Chars(comps[1])
    ELSE Chars(Head(comps)) \o <<"/">> \o JoinChars(Tail(comps))

\* The path as the string the client typed.
to_string(path) == (IF path.abs THEN <<"/">> ELSE <<>>) \o JoinChars(path.comps)

IsPrefix(a, b) == Len(a) <= Len(b) /\ SubSeq(b, 1, Len(a)) = a

\* str::starts_with compares characters.
str_starts_with(s, prefix) == IsPrefix(prefix, s)

\* Path::starts_with compares whole components.
path_starts_with(path, base) ==
    path.abs = base.abs /\ IsPrefix(base.comps, path.comps)

\* PathBuf::join: an absolute argument replaces the base.
join(base, path) ==
    IF path.abs THEN path ELSE Path(base.abs, base.comps \o path.comps)

\* document_manager.rs:90, directory_manager.rs:29  the workspace path is
\* canonicalized when the managers are built.
WorkspaceRoot == Path(TRUE, <<"ws">>)

\* The file system the paths are resolved in: its directories, its files
\* and one symbolic link, /ws/l, whose target is an input of the call.
Dirs == {<<>>, <<"ws">>, <<"ws2">>, <<"out">>}
Files == {<<"ws", "a">>, <<"ws2", "a">>, <<"out", "a">>}
LinkAt == <<"ws", "l">>
LinkTargets == {<<"out">>, <<"ws">>}

PathOk(path) == [ok |-> TRUE, path |-> path]
PathErr == [ok |-> FALSE, path |-> Path(FALSE, <<>>)]

\* std::fs::canonicalize: every component must exist, ".." goes to the
\* parent of the resolved prefix, a symbolic link is replaced by its target.
RECURSIVE Canon(_, _, _)
Canon(resolved, rest, target) ==
    IF rest = <<>> THEN PathOk(Path(TRUE, resolved))
    ELSE IF resolved \in Files THEN PathErr
    ELSE LET c == Head(rest)
             next == Append(resolved, c)
         IN  IF c = ".."
             THEN Canon(IF resolved = <<>> THEN <<>>
                        ELSE SubSeq(resolved, 1, Len(resolved) - 1),
                        Tail(rest), target)
             ELSE IF next = LinkAt THEN Canon(target, Tail(rest), target)
             ELSE IF next \in Dirs \cup Files THEN Canon(next, Tail(rest), target)
             ELSE PathErr

canonicalize(path, target) == Canon(<<>>, path.comps, target)

\* path_utils.rs:7-29
join_workspace_path(relative_path) ==
    IF relative_path = Path(FALSE, <<>>) THEN PathOk(WorkspaceRoot)
    ELSE IF str_starts_with(to_string(relative_path), to_string(WorkspaceRoot))
    THEN PathOk(relative_path)
    ELSE LET full_path == join(WorkspaceRoot, relative_path)
         IN  IF ~path_starts_with(full_path, WorkspaceRoot) THEN PathErr
             ELSE PathOk(full_path)

validate_workspace_path_by_string(path) ==
    str_starts_with(to_string(path), to_string(WorkspaceRoot))

\* path_utils.rs:63-70
validate_workspace_path(path) == path_starts_with(path, WorkspaceRoot)

\* path_utils.rs:31-36  get_full_path for any path string, in the file
\* system whose link leads to target.
get_full_path_at(relative_path, target) ==
    LET joined_path == join_workspace_path(relative_path) IN
    IF ~joined_path.ok THEN PathErr
    ELSE LET canonical == canonicalize(joined_path.path, target)
         IN  IF ~canonical.ok THEN PathErr
             ELSE IF ~validate_workspace_path(canonical.path) THEN PathErr
             ELSE canonical

\* path_utils.rs:38-61  canonicalize_document_path for any uri.
canonicalize_document_path_at(uri, target) ==
    LET direct == canonicalize(uri, target) IN
    IF uri.abs /\ ~direct.ok THEN PathErr
    ELSE IF uri.abs /\ path_starts_with(direct.path, WorkspaceRoot) THEN direct
    ELSE LET path == IF to_string(uri) = <<>> THEN WorkspaceRoot
                     ELSE join(WorkspaceRoot, uri)
             canonical == canonicalize(path, target)
         IN  IF ~canonical.ok THEN PathErr
             ELSE IF ~validate_workspace_path(canonical.path) THEN PathErr
             ELSE canonical

RECURSIVE SeqsUpTo(_, _)
SeqsUpTo(S, n) ==
    IF n = 0 THEN {<<>>}
    ELSE LET shorter == SeqsUpTo(S, n - 1)
         IN  shorter \cup {Append(q, x) : q \in shorter, x \in S}

\* The path strings a client sends.
PathInputs ==
    {Path(abs, comps) : abs \in BOOLEAN, comps \in SeqsUpTo(Components, MaxDepth)}

\* A request resolves the path it carries: fn is the function its handler
\* calls (server.rs:199-422).
Resolve(fn, input, target) ==
    /\ LET r == IF fn = "get_full_path" THEN get_full_path_at(input, target)
                ELSE canonicalize_document_path_at(input, target)
       IN  path_ret' = PathRet(fn, input, target, r.ok, r.path)
    /\ UNCHANGED <<watchVars, lspVars, searchVars, connVars, termVars, initVars, lockVars, createVars,
                   overflow_checks, docVars, pc, ret, last_change, scenario>>

\* One resolution in a behaviour: Resolve reads no state and changes none
\* but its own record.
NextPath ==
    /\ path_ret = NoPathRet
    /\ \E fn \in {"get_full_path", "canonicalize_document_path"},
          input \in PathInputs, target \in LinkTargets :
          Resolve(fn, input, target)

SpecPath == Init /\ [][NextPath]_vars

(***************************************************************************)
(* The reader task of a terminal (terminal/terminal_server.rs:56-92).      *)
(***************************************************************************)

\* The TerminalMessages followed on the broadcast channel at most.
MaxPublished == 3

TerminalEvent(id, kind) == [terminal_id |-> id, kind |-> kind]

\* terminal_manager.rs:30-43  create_terminal builds the TerminalServer and
\* starts it: the reader is cloned and the blocking task is spawned.
StartTerminal(id) ==
    /\ reader[id] = "none"
    /\ reader' = [reader EXCEPT ![id] = "reading"]
    /\ UNCHANGED <<initVars, lockVars, createVars, published, watchVars, lspVars, searchVars, connVars,
                   pathVars, overflow_checks, docVars, pc, ret, last_change,
                   scenario>>

\* terminal_server.rs:69-88  one turn of the reader's loop. result is what
\* reader.read returned: "data" for Ok(n) with n > 0, "eof" for Ok(0),
\* "error" for Err(e). event_sender.send fails when no session is
\* subscribed (has_receivers is false). The task has ended in every state
\* of reader but "reading".
ReaderRead(id, result, has_receivers) ==
    /\ reader[id] = "reading"
    /\ CASE result = "data" ->
              IF has_receivers
              THEN /\ published' = Append(published, TerminalEvent(id, "Output"))
                   /\ reader' = reader
              ELSE /\ reader' = [reader EXCEPT ![id] = "unheard"]
                   /\ published' = published
         [] result = "eof" ->
              /\ reader' = [reader EXCEPT ![id] = "eof"]
              /\ published' = published
         [] OTHER ->
              IF has_receivers
              THEN /\ published' = Append(published, TerminalEvent(id, "Error"))
                   /\ reader' = [reader EXCEPT ![id] = "failed"]
              ELSE /\ reader' = [reader EXCEPT ![id] = "failed_unheard"]
                   /\ published' = published
    /\ UNCHANGED <<initVars, lockVars, createVars, watchVars, lspVars, searchVars, connVars, pathVars,
                   overflow_checks, docVars, pc, ret, last_change, scenario>>

NextTerm ==
    \/ \E id \in TerminalIds : StartTerminal(id)
    \/ \E id \in TerminalIds, result \in {"data", "eof", "error"},
          has_receivers \in BOOLEAN :
          /\ Len(published) < MaxPublished
          /\ ReaderRead(id, result, has_receivers)

SpecTerm == Init /\ [][NextTerm]_vars

(***************************************************************************)
(* The wait of LspServer::initialize for the initialize response           *)
(* (lsp/lsp_server.rs:153-161, 268-273). Time is counted in units of 10 s. *)
(***************************************************************************)

\* lsp_server.rs:155  tokio::time::timeout(Duration::from_secs(60), ..)
\* around the send_request of initialize.
INITIALIZE_TIMEOUT == 6

\* lsp_server.rs:269  tokio::time::timeout(Duration::from_secs(30), ..)
\* around the oneshot receiver inside send_request.
REQUEST_TIMEOUT == 3

\* The time session s has waited since its initialize request was sent.
Elapsed(s) == IF Has(init_elapsed, s) THEN init_elapsed[s] ELSE 0

\* What the wait yields when it is polled after elapsed units: the
\* response when it has arrived; else the error of the timer of
\* send_request once that is due (Ok(Err(e)) for the outer timeout, line
\* 159), else the error of the outer timer once that is due (line 160).
initialize_wait(elapsed, responded) ==
    IF responded THEN "Initialized"
    ELSE IF elapsed >= REQUEST_TIMEOUT THEN "RequestTimedOut"
    ELSE IF elapsed >= INITIALIZE_TIMEOUT THEN "InitializeTimedOut"
    ELSE "Waiting"

\* Time passes for a session that waits for the initialize response; it
\* cannot pass a timer that is due without the timer firing.
InitializeTick(s) ==
    /\ pc[s].at = "lsp_init"
    /\ initialize_wait(Elapsed(s), FALSE) = "Waiting"
    /\ init_elapsed' = Put(init_elapsed, s, Elapsed(s) + 1)
    /\ UNCHANGED <<init_ret, overflow_checks, docVars, last_change, scenario,
                   watchVars, searchVars, connVars, pathVars, termVars, lspVars,
                   lockVars, createVars,
                   pc, ret>>

\* The rest of initialize_server with its timing: the initialize response
\* arrives now (responded) or a timer fires; the session is inserted into
\* active_servers when the response was accepted.
InitializeEnds(s, responded) ==
    /\ pc[s].at = "lsp_init"
    /\ LET res == initialize_wait(Elapsed(s), responded) IN
       /\ res # "Waiting"
       /\ init_ret' = InitRet(s, res, Elapsed(s))
       /\ IF res = "Initialized"
          THEN /\ active_servers' = Put(active_servers, ServerName, lsp_init[s])
               /\ lsp_ret' = LspRet("get_server", s, lsp_init[s], "Initialized",
                                    NoMessage)
          ELSE /\ lsp_ret' = LspRet("get_server", s, lsp_init[s], "Failed",
                                    NoMessage)
               /\ UNCHANGED active_servers
    /\ lsp_init' = Remove(lsp_init, s)
    /\ init_elapsed' = Remove(init_elapsed, s)
    /\ pc' = [pc EXCEPT ![s] = Idle]
    /\ ret' = NoRet
    /\ UNCHANGED <<overflow_checks, docVars, last_change, scenario, watchVars,
                   searchVars, connVars, pathVars, termVars, lockVars, createVars, children,
                   request_counter, pending_requests, oneshot, lsp_call, calls,
                   timed_out>>

NextLspInit ==
    \/ \E s \in Sessions : GetServer(s)
    \/ \E s \in Sessions : InitializeTick(s)
    \/ \E s \in Sessions, responded \in BOOLEAN : InitializeEnds(s, responded)

\* Sessions starting the language server and waiting for its initialize
\* response while time passes.
SpecLspInit == Init /\ [][NextLspInit]_vars

(***************************************************************************)
(* The locks of the search manager (search_manager.rs)                     *)
(*                                                                         *)
(* create_search and process_results are followed from one lock            *)
(* acquisition to the next.  A tokio RwLock is granted to a writer when    *)
(* nobody holds it and to a reader when no writer holds it; with the two   *)
(* tasks of this section both come to "the other task does not hold it".   *)
(* last_query is locked by create_search alone, and is_searching is held   *)
(* for one statement by a task that waits for nothing else meanwhile, so   *)
(* neither can keep a task waiting and they are taken within the steps.    *)
(***************************************************************************)

\* lock.write().await or lock.read().await is granted to a task.
acquire(lock, task) == [lock_holder EXCEPT ![lock] = task]

\* The guards a task holds are dropped when its function returns.
release_all(task) ==
    [l \in SearchLocks |-> IF lock_holder[l] = task THEN "free" ELSE lock_holder[l]]

\* Variables that no step of the two tasks writes.
outsideSearch == <<overflow_checks, docVars, pc, ret, last_change, scenario,
                   watchVars, lspVars, connVars, pathVars, termVars, initVars,
                   createVars, search_ret, pollVars>>

\* search_manager.rs:177-187  a client message calls create_search.
CreateBegin(query, search_content) ==
    /\ create_task.at = "idle"
    /\ create_task' = CreateTask("l188", query,
                                 IF search_content THEN "Content" ELSE "Filename",
                                 FALSE, FALSE)
    /\ UNCHANGED <<lock_holder, results_at, current_mode, last_query, indexed,
                   is_searching, outsideSearch>>

\* search_manager.rs:188-202  the write guards of current_mode and
\* last_query are taken and kept to the end of the function.
CreateLockMode ==
    /\ create_task.at = "l188"
    /\ lock_holder["current_mode"] = "free"
    /\ LET mode_changed == current_mode # create_task.new_mode
           reparse == should_reparse(last_query, create_task.query, mode_changed)
       IN  create_task' = CreateTask(IF mode_changed THEN "l204" ELSE "l220",
                                     create_task.query, create_task.new_mode,
                                     mode_changed, reparse)
    /\ lock_holder' = acquire("current_mode", "create_search")
    /\ current_mode' = create_task.new_mode
    /\ UNCHANGED <<results_at, last_query, indexed, is_searching, outsideSearch>>

\* search_manager.rs:204  searcher.write().await.restart(true); the guard
\* is a temporary of the statement.
CreateRestart ==
    /\ create_task.at = "l204"
    /\ lock_holder["searcher"] = "free"
    /\ indexed' = "none"
    /\ create_task' = [create_task EXCEPT !.at = "l207"]
    /\ UNCHANGED <<lock_holder, results_at, current_mode, last_query,
                   is_searching, outsideSearch>>

\* search_manager.rs:207-210 and 101-103  initialize_files takes the read
\* guard of searcher for the walk; an error returns from create_search.
CreateInitialize(init_ok) ==
    /\ create_task.at = "l207"
    /\ lock_holder["searcher"] = "free"
    /\ IF init_ok
       THEN /\ indexed' = create_task.new_mode
            /\ create_task' = [create_task EXCEPT !.at = "l213"]
            /\ UNCHANGED lock_holder
       ELSE /\ create_task' = NoCreateTask
            /\ lock_holder' = release_all("create_search")
            /\ UNCHANGED indexed
    /\ UNCHANGED <<results_at, current_mode, last_query, is_searching,
                   outsideSearch>>

\* search_manager.rs:213-217 and 220-228  the write guard of searcher is
\* taken, the pattern reparsed, the search marked as running, and the
\* function returns.
CreateReparse ==
    /\ create_task.at \in {"l213", "l220"}
    /\ lock_holder["searcher"] = "free"
    /\ last_query' = <<create_task.query>>
    /\ is_searching' = TRUE
    /\ create_task' = NoCreateTask
    /\ lock_holder' = release_all("create_search")
    /\ UNCHANGED <<results_at, current_mode, indexed, outsideSearch>>

\* search_manager.rs:73-76, 89  the poller sees is_searching and calls
\* process_results.
ResultsBegin ==
    /\ results_at = "idle"
    /\ is_searching
    /\ results_at' = "l231"
    /\ UNCHANGED <<lock_holder, create_task, current_mode, last_query, indexed,
                   is_searching, outsideSearch>>

\* search_manager.rs:231  the write guard of searcher, kept to the end.
ResultsLockSearcher ==
    /\ results_at = "l231"
    /\ lock_holder["searcher"] = "free"
    /\ lock_holder' = acquire("searcher", "process_results")
    /\ results_at' = "l232"
    /\ UNCHANGED <<create_task, current_mode, last_query, indexed, is_searching,
                   outsideSearch>>

\* search_manager.rs:232-295  the read guard of current_mode, the tick of
\* the matcher, the batches, and the return; is_done is what the matcher
\* reports.
ResultsLockMode(is_done) ==
    /\ results_at = "l232"
    /\ lock_holder["current_mode"] = "free"
    /\ is_searching' = IF is_done THEN FALSE ELSE is_searching
    /\ lock_holder' = release_all("process_results")
    /\ results_at' = "idle"
    /\ UNCHANGED <<create_task, current_mode, last_query, indexed, outsideSearch>>

NextSearchLocks ==
    \/ \E query \in Queries, search_content \in BOOLEAN :
          CreateBegin(query, search_content)
    \/ CreateLockMode
    \/ CreateRestart
    \/ \E init_ok \in BOOLEAN : CreateInitialize(init_ok)
    \/ CreateReparse
    \/ ResultsBegin
    \/ ResultsLockSearcher
    \/ \E is_done \in BOOLEAN : ResultsLockMode(is_done)

\* A client searching while the poller reports the results of its last
\* search.
SpecSearchLocks == Init /\ [][NextSearchLocks]_vars

(***************************************************************************)
(* CreateTerminal in a session (server.rs:491-498, 543, 554, 564-629;      *)
(* terminal/terminal_manager.rs:30-43)                                     *)
(*                                                                         *)
(* Every session subscribes to the broadcast channel of the                *)
(* TerminalManager when its connection starts, so its receiver holds the   *)
(* messages of published that it has not received yet.  The reader task    *)
(* of a terminal runs from TerminalServer::start on, beside the handler    *)
(* that created it.                                                        *)
(***************************************************************************)

\* A message written to a client: its tag, the terminal it names, and the
\* number of terminal messages waiting in the session's receiver then.
Written(tag, id, backlog) == [tag |-> tag, terminal_id |-> id, backlog |-> backlog]

\* The messages of the broadcast channel session s has not received.
Backlog(s) == Len(published) - term_seen[s]

\* The branch is taken while a handler runs.
terminal_events_ready_in_handler(s) == conn[s] = "open"

\* server.rs:564, 608  tokio::select! polls terminal_events.recv() only
\* while the loop waits in the select: the body of the branch it chose,
\* the handler of a request included, runs to its end first.
terminal_events_ready(s) == conn[s] = "open" /\ term_call[s].at = "select"

\* server.rs:491-492, terminal_manager.rs:30-39  the CreateTerminal arm
\* calls create_terminal: a fresh id, TerminalServer::new and start, which
\* spawns the reader; ok is false when one of them returns an error, and
\* then no reader runs for the id, which is not drawn again.
CreateTerminalStart(s, id, ok) ==
    /\ conn[s] = "open"
    /\ term_call[s].at = "select"
    /\ reader[id] = "none"
    /\ id \notin {term_call[o].id : o \in Sessions}
    /\ reader' = [reader EXCEPT ![id] = IF ok THEN "reading" ELSE "not_started"]
    /\ term_call' = [term_call EXCEPT
                        ![s] = TermCall(IF ok THEN "l40" ELSE "failed", id)]
    /\ UNCHANGED <<terminals, term_seen, wire, published, initVars, lockVars,
                   watchVars, lspVars, searchVars, connVars, pathVars,
                   overflow_checks, docVars, pc, ret, last_change, scenario>>

\* terminal_manager.rs:40-41  the terminal is inserted into the map.
CreateTerminalRegister(s) ==
    /\ term_call[s].at = "l40"
    /\ terminals' = terminals \cup {term_call[s].id}
    /\ term_call' = [term_call EXCEPT ![s] = TermCall("l493", term_call[s].id)]
    /\ UNCHANGED <<term_seen, wire, termVars, initVars, lockVars, watchVars,
                   lspVars, searchVars, connVars, pathVars, overflow_checks,
                   docVars, pc, ret, last_change, scenario>>

\* server.rs:493-497, 541-544, 568-580  the arm evaluates to TerminalCreated
\* or Error, the handler writes it, and the loop goes back to the select or
\* ends on a failed write.
CreateTerminalRespond(s, write_ok, retry_ok) ==
    /\ term_call[s].at \in {"l493", "failed"}
    /\ LET created == term_call[s].at = "l493"
           r == handle_text(IF created THEN "TerminalCreated" ELSE "Error",
                            write_ok, retry_ok)
           id(tag) == IF tag = "TerminalCreated" THEN term_call[s].id ELSE "none"
       IN  /\ wire' = [wire EXCEPT ![s] =
                          @ \o [i \in 1 .. Len(r.wrote) |->
                                   Written(r.wrote[i], id(r.wrote[i]), Backlog(s))]]
           /\ conn' = [conn EXCEPT ![s] = IF r.open THEN "open" ELSE "closed"]
    /\ term_call' = [term_call EXCEPT ![s] = NoTermCall]
    /\ UNCHANGED <<terminals, term_seen, termVars, initVars, lockVars, watchVars,
                   lspVars, searchVars, read_ended, conn_ret, pathVars,
                   overflow_checks, docVars, pc, ret, last_change, scenario>>

\* server.rs:608-629  the terminal_events branch takes the next message of
\* the receiver and writes it with let _ = write.send(..).
TerminalEventsRecv(s, write_ok) ==
    /\ terminal_events_ready(s)
    /\ Backlog(s) > 0
    /\ LET term_msg == published[term_seen[s] + 1]
           tag == IF term_msg.kind = "Output" THEN "TerminalOutput"
                  ELSE "TerminalError"
       IN  wire' = [wire EXCEPT ![s] =
                       IF write_ok
                       THEN Append(@, Written(tag, term_msg.terminal_id,
                                              Backlog(s) - 1))
                       ELSE @]
    /\ term_seen' = [term_seen EXCEPT ![s] = @ + 1]
    /\ UNCHANGED <<term_call, terminals, termVars, initVars, lockVars, watchVars,
                   lspVars, searchVars, connVars, pathVars, overflow_checks,
                   docVars, pc, ret, last_change, scenario>>

NextCreateTerminal ==
    \/ \E id \in TerminalIds, ok \in BOOLEAN :
          CreateTerminalStart(FollowedSession, id, ok)
    \/ CreateTerminalRegister(FollowedSession)
    \/ \E write_ok \in BOOLEAN, retry_ok \in BOOLEAN :
          CreateTerminalRespond(FollowedSession, write_ok, retry_ok)
    \/ \E id \in TerminalIds, result \in {"data", "eof", "error"} :
          /\ Len(published) < MaxPublished
          /\ ReaderRead(id, result, \E s \in Sessions : conn[s] = "open")
    \/ \E write_ok \in BOOLEAN : TerminalEventsRecv(FollowedSession, write_ok)

\* One session creating terminals while the readers of the terminals
\* publish; the other session stays subscribed.
SpecCreateTerminal == Init /\ [][NextCreateTerminal]_vars

(***************************************************************************)
(* Claims                                                                  *)
(***************************************************************************)

\* C1: at the end of every cache_content call the byte lengths of all cached
\* contents add up to at most the cache budget.
C1_CacheWithinBudget == CacheTotal <= CACHE_SIZE_LIMIT

\* C2: of any two successful change_document calls on a path, the later one
\* returns the higher version, whichever sessions make them and whatever
\* opens, saves and closes come between.
C2_ChangeVersionsIncrease ==
    [][(ret'.op = "change_document" /\ ret'.res = "Ok"
            /\ Has(last_change, ret'.path))
        => ret'.version > last_change[ret'.path].version]_vars

\* Session 2 has made the second successful change of the file, on a closed
\* document, while session 1 is in the middle of a save.
C2_Witness ==
    /\ ret.op = "change_document" /\ ret.res = "Ok" /\ ret.version = 2
    /\ pc[2].at = "chg_get" /\ pc[1].at = "save_doc"
    /\ ~document_states[ret.path].is_open

\* C3: a successful change_document stores the proposed version and returns
\* it.
C3_AdoptsProposedVersion ==
    [][(ret'.op = "change_document" /\ ret'.res = "Ok")
        => /\ ret'.version = ret'.proposed
           /\ document_states'[ret'.path].version = ret'.proposed]_vars

\* C4: change_document and save_document with a proposed version at or below
\* the document's version fail with VersionConflict and leave the document
\* states, the cache and the disk as they were.
C4_VersionConflictChangesNothing ==
    [][(ret'.op \in {"change_document", "save_document"}
            /\ Has(document_states, ret'.path)
            /\ ret'.proposed <= document_states[ret'.path].version)
        => (ret'.res = "VersionConflict" /\ UNCHANGED docVars)]_vars

\* A change proposed at the version of a dirty, cached document was refused.
C4_Witness ==
    /\ ret.op = "change_document" /\ ret.res = "VersionConflict"
    /\ Has(document_states, ret.path) /\ Has(cache, ret.path)
    /\ document_states[ret.path].is_dirty
    /\ ret.proposed = document_states[ret.path].version
    /\ ret.proposed >= 1

\* C5: a save_document at version open_version + 1 that follows open_file on
\* the path leaves the bytes on disk as they were and raises the version by 1.
C5_SaveAfterOpen ==
    [][(ret'.op = "save_document" /\ ret'.res = "Ok"
            /\ scenario.path = ret'.path /\ scenario.stage = "opened"
            /\ ret'.proposed = document_states[ret'.path].version + 1)
        => /\ disk'[ret'.path] = disk[ret'.path]
           /\ document_states'[ret'.path].version
                  = document_states[ret'.path].version + 1]_vars

\* C6: after open_file, a successful change_document and a successful
\* save_document on a path, the disk holds the UTF-8 bytes of the walk of the
\* changes over the opened text, the cache holds that text, and the document
\* is not dirty.
C6_OpenChangeSave ==
    scenario.stage = "saved"
        => /\ disk[scenario.path] = EncodeUtf8(scenario.text)
           /\ Has(cache, scenario.path)
           /\ cache[scenario.path] = scenario.text
           /\ Has(document_states, scenario.path)
           /\ ~document_states[scenario.path].is_dirty

\* A Latin-1 file was opened, one code point was kept and one appended, and
\* the result was saved.
C6_Witness ==
    /\ scenario.stage = "saved"
    /\ scenario.text = <<233, 120>>
    /\ disk[scenario.path] = <<195, 169, 120>>

\* C7: a successful save writes the text of the latest successful change of
\* the path, never text read back from disk.
C7_SaveWritesLatestChange ==
    [][(ret'.op = "save_document" /\ ret'.res = "Ok"
            /\ Has(last_change, ret'.path))
        => disk'[ret'.path] = EncodeUtf8(last_change[ret'.path].text)]_vars

\* C8: open_file on a binary file fails with CannotReadBinary and leaves no
\* DocumentState and no cache entry for the path.
C8_BinaryOpenLeavesNothing ==
    [][(ret'.op = "open_file" /\ Len(disk[ret'.path]) <= MAX_FILE_SIZE
            /\ ~Has(cache, ret'.path)
            /\ detect_file_type(disk[ret'.path]) = "Binary")
        => /\ ret'.res = "CannotReadBinary"
           /\ ~Has(document_states', ret'.path)
           /\ ~Has(cache', ret'.path)]_vars

\* C9 as stated: after close_file no DocumentState exists for the path.
C9_CloseRemovesState ==
    [][ret'.op = "close_file" => ~Has(document_states', ret'.path)]_vars

\* C9: close_file keeps the DocumentState, marked not open, with its version
\* and is_dirty; no DocumentState is ever removed, and NotOpen is returned
\* only for a path that has none, so no call on a closed document fails with
\* NotOpen.
C9_CloseKeepsState ==
    [][/\ (ret'.op = "close_file" /\ Has(document_states, ret'.path))
            => /\ Has(document_states', ret'.path)
               /\ ~document_states'[ret'.path].is_open
               /\ document_states'[ret'.path].version
                      = document_states[ret'.path].version
               /\ document_states'[ret'.path].is_dirty
                      = document_states[ret'.path].is_dirty
       /\ \A p \in DOMAIN document_states : Has(document_states', p)
       /\ ret'.res = "NotOpen" => ~Has(document_states, ret'.path)]_vars

\* A change of a closed document has succeeded.
C9_Witness ==
    /\ ret.op = "change_document" /\ ret.res = "Ok"
    /\ ~document_states[ret.path].is_open
    /\ pc[1].at = "chg_get" /\ pc[2].at = "idle"

\* C10: when the watcher processes an event for a path whose content is
\* cached, the cache entry is removed and the counter decreased by its size.
C10_WatcherInvalidatesDocument ==
    [][(ret'.op = "watcher" /\ Has(cache, ret'.path))
        => /\ ~Has(cache', ret'.path)
           /\ current_cache_size'
                  = current_cache_size - ByteLen(cache[ret'.path])]_vars

\* The events the broadcast channel has handed to session s: those waiting
\* in its receiver, those in its buffer and those already sent to the client.
Delivered(s) == fs_events[s] \o event_buffer[s] \o Flatten(sent[s])

\* C11: every FileEvent that has entered the batcher, the batch channel or
\* the broadcast channel, and so every event delivered to a subscriber, is
\* one for which the event loop has already removed the parent directory's
\* entry from the directory cache (or found none).
C11_InvalidatedBeforeDelivery ==
    /\ \A i \in 1 .. Len(batcher_events) : batcher_events[i].seq \in dir_invalidated
    /\ \A i \in 1 .. Len(batch_rx) : \A j \in 1 .. Len(batch_rx[i]) :
          batch_rx[i][j].seq \in dir_invalidated
    /\ \A s \in Sessions : \A i \in 1 .. Len(Delivered(s)) :
          Delivered(s)[i].seq \in dir_invalidated

\* The event of the second write waits in the receiver of a session that
\* had listed the directory, and so filled the cache, after the first write.
C11_Witness ==
    \E s \in Sessions :
        /\ fs_events[s] # <<>> /\ Head(fs_events[s]).seq = 2
        /\ Has(dir_reply, s) /\ dir_reply[s].read_at = 1
        /\ ~Has(dir_cache, Root)

\* C12: a DirectoryContent answers a GetDirectory that the client issued
\* after it had been sent the event of some write; the listing it carries
\* was read from disk after that write, whatever the interleaving of the
\* load_directory calls and the watcher.
C12_LoadAfterEventIsFresh ==
    \A s \in Sessions :
        Has(dir_reply, s) => dir_reply[s].read_at >= dir_reply[s].issued_after

\* C13: no event stays in a session's event buffer for a whole flush period
\* of 100 ms, even when no further event arrives; and every FileSystemEvents
\* message carries at least one event and at most the buffer's capacity.
C13_BufferFlushedInTime ==
    \A s \in Sessions :
        /\ ~overdue[s]
        /\ \A i \in 1 .. Len(sent[s]) :
              Len(sent[s][i]) >= 1 /\ Len(sent[s][i]) <= FLUSH_SIZE

\* A burst one and a half times the session buffer: 150 events for a
\* buffer of 100.
BurstSize == FLUSH_SIZE + FLUSH_SIZE \div 2

\* The sizes of the FileSystemEvents messages session s has written.
Sizes(s) == [i \in 1 .. Len(sent[s]) |-> Len(sent[s][i])]

\* Every task has taken what was sent to it, the batcher holds nothing and
\* both timeouts have expired since: nothing more happens until another
\* file is written.
Settled ==
    /\ notify_rx = <<>> /\ batcher_events = <<>> /\ batch_rx = <<>>
    /\ \A s \in Sessions : fs_events[s] = <<>> /\ last_send_elapsed[s]
    /\ last_emit_elapsed

\* C14: when a burst of 150 writes made within less than the flush timeout
\* has gone through the pipeline, each connected client has been sent
\* exactly two FileSystemEvents messages, of 100 and of 50 events.
C14_BurstArrivesAsTwoMessages ==
    (ext_writes = BurstSize /\ burst = "gap" /\ Settled)
        => \A s \in Sessions : Sizes(s) = <<FLUSH_SIZE, BurstSize - FLUSH_SIZE>>

\* The calls of send_request that await a response which has not arrived.
Outstanding == {s \in DOMAIN lsp_call : ~Has(oneshot, lsp_call[s].chan)}

\* C15: every outstanding request id has its entry in the pending map, the
\* sender of that request's channel. A message whose id has an entry removes
\* the entry, touches no other entry and is handed to the request waiting
\* under that id; a message whose id has no entry (a second response, an
\* unknown id) changes neither the map nor any channel.
C15_PendingEntryPerRequest ==
    [][/\ \A s \in Outstanding' :
             /\ Has(pending_requests', lsp_call'[s].id)
             /\ pending_requests'[lsp_call'[s].id] = lsp_call'[s].chan
       /\ lsp_ret'.op = "handle_messages" =>
             IF Has(pending_requests, lsp_ret'.id)
             THEN /\ pending_requests' = Remove(pending_requests, lsp_ret'.id)
                  /\ \A s \in DOMAIN lsp_call :
                        lsp_call[s].id = lsp_ret'.id =>
                            /\ Has(oneshot', lsp_call[s].chan)
                            /\ oneshot'[lsp_call[s].chan] = lsp_ret'.response
                  /\ \A c \in DOMAIN oneshot : Has(oneshot', c) /\ oneshot'[c] = oneshot[c]
             ELSE UNCHANGED <<pending_requests, oneshot, lsp_call>>]_vars

\* A second response to a request already answered has been ignored while
\* the other session's request is outstanding.
C15_Witness ==
    /\ lsp_ret.op = "handle_messages" /\ lsp_ret.res = "ignored"
    /\ lsp_ret.id < request_counter /\ lsp_ret.id \notin timed_out
    /\ Outstanding # {}
    /\ \E c \in DOMAIN oneshot : oneshot[c].id = lsp_ret.id

\* C16: when send_request returns an error of its wait (timeout, channel
\* closed) its id is no longer in the pending map, so that the map holds no
\* id of a call that has returned.
C16_NoPendingSlotLeaked ==
    [][(lsp_ret'.op = "send_request"
            /\ lsp_ret'.res \in {"Timeout", "ChannelClosed"})
        => ~Has(pending_requests', lsp_ret'.id)]_vars

\* C17: the calls of send_request that are waiting at the same time hold
\* pairwise distinct ids; a message with id i reaches the channel of the call
\* that allocated i and no other channel; and a call that returns Ok returns
\* the message that carries its own id, in whatever order the server answers.
C17_ResponsesMatchedById ==
    [][/\ \A s1, s2 \in DOMAIN lsp_call' :
             s1 # s2 => lsp_call'[s1].id # lsp_call'[s2].id
       /\ \A s \in DOMAIN lsp_call :
             (Has(oneshot', lsp_call[s].chan) /\ ~Has(oneshot, lsp_call[s].chan))
                 => /\ lsp_ret'.op = "handle_messages"
                    /\ lsp_ret'.id = lsp_call[s].id
                    /\ oneshot'[lsp_call[s].chan] = lsp_ret'.response
       /\ (lsp_ret'.op = "send_request" /\ lsp_ret'.res = "Ok")
             => /\ lsp_ret'.response.id = lsp_ret'.id
                /\ lsp_ret'.response = oneshot[lsp_call[lsp_ret'.session].chan]]_vars

\* The request allocated second has completed with its response while the
\* request allocated first is still waiting for its own.
C17_Witness ==
    /\ lsp_ret.op = "send_request" /\ lsp_ret.res = "Ok" /\ lsp_ret.id = 1
    /\ \E s \in Outstanding : lsp_call[s].id = 0

\* C18: every waiting send_request call returns, by its response or, when
\* the server never answers it, by the timeout. After a call has timed out
\* the server session stays usable: a call that returns Ok returns the
\* response carrying its own id, and a late response to the timed-out id
\* only removes that id's entry; it reaches no channel and no waiting call.
C18_TimeoutKeepsServerUsable ==
    /\ \A s \in Sessions :
          (pc[s].at = "lsp_wait")
              ~> (lsp_ret.op = "send_request" /\ lsp_ret.session = s
                      /\ lsp_ret.res \in {"Ok", "Timeout"})
    /\ [][/\ (lsp_ret'.op = "send_request" /\ lsp_ret'.res = "Timeout")
               => ~Has(oneshot, lsp_call[lsp_ret'.session].chan)
          /\ (lsp_ret'.op = "send_request" /\ lsp_ret'.res = "Ok"
                   /\ timed_out # {})
               => (lsp_ret'.response.id = lsp_ret'.id
                       /\ lsp_ret'.id \notin timed_out)
          /\ (lsp_ret'.op = "handle_messages" /\ lsp_ret'.id \in timed_out)
               => (UNCHANGED <<oneshot, lsp_call, pc>>
                       /\ pending_requests' = Remove(pending_requests, lsp_ret'.id))]_vars

\* A request has completed with its own response after an earlier request
\* had timed out and the late response to that one had been discarded.
C18_Witness ==
    /\ lsp_ret.op = "send_request" /\ lsp_ret.res = "Ok"
    /\ \E i \in timed_out : i < lsp_ret.id /\ ~Has(pending_requests, i)

\* C19: for the server name at most one process is alive at a time as a
\* session being initialized or stored: no process is spawned while another
\* is being initialized, and an insert into active_servers never replaces a
\* live session, also when several sessions call get_server before the first
\* initialization has completed.
C19_OneServerPerName ==
    [][/\ Cardinality(DOMAIN lsp_init') <= 1
       /\ active_servers' # active_servers => ~Has(active_servers, ServerName)]_vars

\* C20: every create_search does what the re-parse rule prescribes. The
\* first search ever, and a search whose mode differs from that of the
\* previous search, restarts the matcher, indexes all rows and sets the
\* pattern with append = false; a search in the same mode whose query
\* starts with the previous query keeps the index and sets the pattern with
\* append = true; any other search keeps the index and sets the pattern
\* with append = false.
C20_ReparseRule ==
    [][search_ret'.n # search_ret.n =>
          IF search_ret.n = 0 \/ search_ret'.mode # search_ret.mode
          THEN /\ search_ret'.restart /\ search_ret'.reindex
               /\ search_ret'.reparsed /\ ~search_ret'.append
               /\ indexed' = search_ret'.mode
          ELSE /\ ~search_ret'.restart /\ ~search_ret'.reindex
               /\ search_ret'.reparsed
               /\ search_ret'.append = starts_with(search_ret'.query, search_ret.query)
               /\ indexed' = indexed]_vars

\* C21: every result batch holds at most 50 items, and when the matcher
\* reports not-running the last batch sent for the search carries
\* is_complete = true, whatever the number of matches: none, some, or an
\* exact multiple of the batch size.
C21_FinalBatchIsComplete ==
    [][clock' # clock =>
          /\ \A i \in 1 .. Len(poll_ret'.messages) :
                poll_ret'.messages[i].items <= SEARCH_BATCH_SIZE
          /\ poll_ret'.kind = "done" =>
                /\ poll_ret'.messages # <<>>
                /\ poll_ret'.messages[Len(poll_ret'.messages)].is_complete]_vars

\* C22: the search timeout counts from the search's own create_search. A
\* search is never still running more than the timeout and the polls around
\* it after it began, and the poller never ends by timeout a search that
\* began less than the timeout ago, also when an earlier search was still
\* running, or had just ended, when it began.
C22_TimeoutPerSearch ==
    [][/\ is_searching' => clock' - search_began' <= SEARCH_TIMEOUT_POLLS + 2
       /\ (clock' # clock /\ poll_ret'.kind = "timeout")
             => clock' - search_began >= SEARCH_TIMEOUT_POLLS]_vars

\* C23: no message with the Success tag is written to the client: a request
\* whose outcome is Success (CloseFile, WriteTerminal, ResizeTerminal, Search,
\* CancelSearch) writes nothing, and a request with any other outcome writes
\* exactly one message when the client accepts the write.
C23_SuccessNeverOnTheWire ==
    [][/\ \A i \in 1 .. Len(conn_ret'.wrote) : conn_ret'.wrote[i] # "Success"
       /\ conn_ret'.frame = "Text" /\ conn_ret'.request # None =>
             /\ conn_ret'.outcome = "Success" =>
                   /\ conn_ret'.wrote = <<>>
                   /\ conn_ret'.request \in
                         {"CloseFile", "WriteTerminal", "ResizeTerminal",
                          "Search", "CancelSearch"}
             /\ (conn_ret'.outcome # "Success" /\ ~conn_ret'.write_failed) =>
                   Len(conn_ret'.wrote) = 1]_vars

\* A CloseFile that succeeded and left the client without a message.
C23_Witness ==
    /\ conn_ret.request = "CloseFile"
    /\ conn_ret.outcome = "Success"
    /\ conn_ret.wrote = <<>>
    /\ conn[conn_ret.s] = "open"

\* The outcomes of a text frame that are failures of the request.
FailingOutcomes == {"undecodable", "Error", "early_error", "Err"}

\* C24: every inbound request that fails (an undecodable message, an Error
\* response, an Error the handler writes itself, an error that leaves the
\* handler) puts exactly one Error on the client channel when the client
\* accepts the writes, never more than one, and leaves the session loop
\* running and reading requests.
C24_OneErrorPerFailingRequest ==
    [][(conn_ret'.frame = "Text" /\ conn_ret'.outcome \in FailingOutcomes) =>
          /\ Len(conn_ret'.wrote) <= 1
          /\ ~conn_ret'.write_failed =>
                /\ conn_ret'.wrote = <<"Error">>
                /\ conn'[conn_ret'.s] = "open"
                /\ ~read_ended'[conn_ret'.s]]_vars

\* A CloseFile whose document state is missing: the error left the handler,
\* the loop reported it and is still running.
C24_Witness ==
    /\ conn_ret.request = "CloseFile"
    /\ conn_ret.outcome = "Err"
    /\ conn_ret.wrote = <<"Error">>
    /\ conn[conn_ret.s] = "open"
    /\ ~read_ended[conn_ret.s]

\* C25: when the client sends a Close frame or the client channel reaches
\* its end, the session loop terminates at that iteration, without waiting
\* for an event of the file system, a terminal or a search.
C25_CloseOrEndTerminates ==
    [][(conn_ret'.branch = "read" /\ conn_ret'.frame \in {"Close", "End"}) =>
          conn'[conn_ret'.s] = "closed"]_vars

\* C26: a write to the client channel that fails, of a request response, of
\* a FileSystemEvents push, of a TerminalOutput or TerminalError push or of
\* a SearchResults push, terminates the session loop.
C26_WriteFailureTerminates ==
    [][conn_ret'.write_failed => conn'[conn_ret'.s] = "closed"]_vars

\* The canonical form of the place a path string names when it is read
\* from the workspace root.
Named(input, target) == canonicalize(join(WorkspaceRoot, input), target)

\* C27: every path get_full_path or canonicalize_document_path accepts is
\* the canonical form of the input and is WorkspaceRoot or a descendant of
\* it: inputs that leave the root through "..", absolute paths outside the
\* root, paths that share only the root's string prefix and links that lead
\* outside are rejected, and the empty input resolves to WorkspaceRoot.
C27_AcceptedPathsAreInsideTheRoot ==
    /\ path_ret.ok =>
          /\ path_ret.path = Named(path_ret.input, path_ret.target).path
          /\ path_ret.path.abs
          /\ path_ret.path.comps # <<>>
          /\ path_ret.path.comps[1] = "ws"
          /\ \A i \in 1 .. Len(path_ret.path.comps) :
                path_ret.path.comps[i] # ".."
          /\ path_ret.path.comps # LinkAt
    /\ (path_ret.fn # None /\ path_ret.input = Path(FALSE, <<>>)) =>
          path_ret.ok /\ path_ret.path = WorkspaceRoot
    /\ (path_ret.fn # None /\
        path_ret.input \in {Path(FALSE, <<"..", "out">>), Path(TRUE, <<"out">>),
                            Path(TRUE, <<"ws2", "a">>),
                            Path(TRUE, <<"ws", "..", "out">>)}) => ~path_ret.ok
    /\ (path_ret.fn # None /\ path_ret.target = <<"out">> /\
        path_ret.input \in {Path(FALSE, <<"l">>), Path(TRUE, <<"ws", "l", "a">>)})
          => ~path_ret.ok

\* A path through the link, resolved while the link stays inside the
\* workspace, is accepted as the file it names.
C27_Witness ==
    /\ path_ret.fn = "get_full_path"
    /\ path_ret.input = Path(FALSE, <<"l", "a">>)
    /\ path_ret.target = <<"ws">>
    /\ path_ret.ok
    /\ path_ret.path = Path(TRUE, <<"ws", "a">>)

\* C28: a ChangeFile or SaveFile whose uri is any accepted spelling of a
\* path addresses the document that OpenFile opened under the canonical
\* path: it is not refused as not open while that document has a state, as
\* the request with the canonical path is not.
C28_SpellingsAddressOneDocument ==
    [][(/\ ret'.op \in {"change_document", "save_document"}
        /\ canonicalize_document_path(ret'.path) # "ERR"
        /\ Has(document_states, canonicalize_document_path(ret'.path)))
          => ret'.res # "NotOpen"]_vars

\* The positions of the events of terminal id on the channel.
EventsOf(id) == {i \in 1 .. Len(published) : published[i].terminal_id = id}

ErrorsOf(id) == {i \in EventsOf(id) : published[i].kind = "Error"}

\* C29: when the reader of a terminal has reached end-of-file, or has got a
\* read error while a session was subscribed, exactly one Error event for
\* that terminal id has been published, it is the last event of that id (no
\* Output follows it), and the reader has terminated.
C29_ReaderEndPublishesOneError ==
    \A id \in TerminalIds :
       reader[id] \in {"eof", "failed"} =>
          /\ Cardinality(ErrorsOf(id)) = 1
          /\ \A i \in EventsOf(id) : \A e \in ErrorsOf(id) : i <= e

\* Does the sequence hold an unchanged run that ends past the end of a text
\* of len code points, the cursor standing where the runs before it (the
\* removed ones too) have moved it.
RECURSIVE Overruns(_, _, _)
Overruns(len, changes, cursor) ==
    IF changes = <<>> THEN FALSE
    ELSE LET run == Head(changes)
             n == Len(run.value)
         IN  IF run.removed THEN Overruns(len, Tail(changes), cursor + n)
             ELSE IF run.added THEN Overruns(len, Tail(changes), cursor)
             ELSE cursor + n > len \/ Overruns(len, Tail(changes), cursor + n)

\* The current content change_document works on: the cache entry, else the
\* file.
CurrentContent(p) ==
    IF Has(cache, p) THEN [ok |-> TRUE, text |-> cache[p]]
    ELSE read_to_string(disk[p])

\* Every overrunning sequence, at every version the document accepts, is
\* answered with InvalidChange and with the states, the cache, its queue
\* and its size as they are.
OverrunsAreRefused(p) ==
    \A version \in Versions, changes \in ChangeSeqs :
       (/\ Has(document_states, p)
        /\ ~change_version_conflict(document_states[p].version, version)
        /\ CurrentContent(p).ok
        /\ Overruns(Len(CurrentContent(p).text), changes, 0))
          => LET r == change_document(document_states, cache, cache_queue,
                                      current_cache_size, disk, p, version,
                                      changes)
             IN  /\ r.res = "InvalidChange"
                 /\ r.states = document_states
                 /\ r.cache = cache
                 /\ r.queue = cache_queue
                 /\ r.size = current_cache_size

\* C30: a change_document whose sequence contains an unchanged run that
\* extends past the end of the current content fails with InvalidChange,
\* for every such sequence (also when removed runs have moved the cursor
\* past the end before it), without reading code points that are not there,
\* and the call leaves the version, is_dirty, the cache entry and the cache
\* accounting exactly as they were.
C30_OverrunIsInvalidChange ==
    [][/\ OverrunsAreRefused("/ws/a")
       /\ (ret'.op = "change_document" /\ ret'.res = "InvalidChange") =>
             /\ document_states' = document_states
             /\ cache' = cache
             /\ cache_queue' = cache_queue
             /\ current_cache_size' = current_cache_size
             /\ last_change' = last_change]_vars

\* An overrunning change refused on a document that an earlier change had
\* left dirty, at version 1 and with a cache entry.
C30_Witness ==
    /\ ret.op = "change_document"
    /\ ret.res = "InvalidChange"
    /\ Has(document_states, "/ws/a")
    /\ document_states["/ws/a"].is_dirty
    /\ document_states["/ws/a"].version = 1
    /\ Has(cache, "/ws/a")

\* The event the event loop hands to add_event at this step, if it does.
AddedNow == IF Len(notify_rx') < Len(notify_rx) THEN <<Head(notify_rx)>> ELSE <<>>

\* C31: every batch the batcher emits is non-empty and holds at most
\* BATCH_SIZE events, and the emitted batches, read in emission order and
\* followed by the events still buffered, are the events in the order they
\* were added: a step of add_event or of the timeout checker appends the
\* added event to that sequence and changes nothing else of it, so no event
\* is lost, duplicated or reordered, however the two interleave.
C31_BatchesKeepEveryEventInOrder ==
    [][/\ Len(batch_rx') > Len(batch_rx) =>
             /\ Len(batch_rx') = Len(batch_rx) + 1
             /\ SubSeq(batch_rx', 1, Len(batch_rx)) = batch_rx
             /\ batch_rx'[Len(batch_rx')] # <<>>
             /\ Len(batch_rx'[Len(batch_rx')]) <= BATCH_SIZE
       /\ Len(batch_rx') >= Len(batch_rx) =>
             Flatten(batch_rx') \o batcher_events'
                = Flatten(batch_rx) \o batcher_events \o AddedNow
       /\ Len(batch_rx') < Len(batch_rx) =>
             /\ batch_rx' = Tail(batch_rx)
             /\ batcher_events' = batcher_events
             /\ AddedNow = <<>>]_vars

\* The timeout checker has emitted a batch of several events, short of a
\* full one, that the forwarder has yet to take.
C31_Witness ==
    /\ ret = NoRet
    /\ Len(batch_rx) = 1
    /\ Len(batch_rx[1]) > 1
    /\ Len(batch_rx[1]) < BATCH_SIZE
    /\ batcher_events = <<>>

\* C32: the initialize response is awaited for 60 s: as long as less than
\* 60 s have passed since the request was sent the wait is still open to a
\* response, and an initialization that fails by timeout has waited 60 s.
C32_InitializeWaitsSixtySeconds ==
    [][/\ init_ret'.res \in {"RequestTimedOut", "InitializeTimedOut"} =>
             init_ret'.elapsed >= INITIALIZE_TIMEOUT
       /\ \A s \in Sessions :
             (pc[s].at = "lsp_init" /\ pc'[s].at = "idle"
              /\ Elapsed(s) < INITIALIZE_TIMEOUT) =>
                init_ret'.res = "Initialized"]_vars


\* A task stands at an acquisition of a lock the other task holds.
CreateWaits ==
    \/ create_task.at = "l188" /\ lock_holder["current_mode"] = "process_results"
    \/ /\ create_task.at \in {"l204", "l207", "l213", "l220"}
       /\ lock_holder["searcher"] = "process_results"

ResultsWaits ==
    \/ results_at = "l231" /\ lock_holder["searcher"] = "create_search"
    \/ results_at = "l232" /\ lock_holder["current_mode"] = "create_search"

\* C33: a create_search that runs while the poller is in process_results
\* always completes: there is no state in which each of the two tasks
\* waits for a lock (searcher, current_mode) that the other one holds.
C33_SearchTasksNeverWaitForEachOther == ~(CreateWaits /\ ResultsWaits)

\* C34: after every cache operation (cache_content with its evictions,
\* invalidate_cache_for_file) current_cache_size is the sum of the byte
\* lengths of the contents the cache holds.
C34_CacheSizeIsTheSumOfTheContents == current_cache_size = CacheTotal

\* C35: no subtraction of an entry's size takes current_cache_size below
\* zero, in eviction or in invalidate_cache_for_file: the u64 neither wraps
\* nor does the subtraction panic.
C35_CacheSizeNeverUnderflows ==
    /\ current_cache_size >= 0
    /\ ret.res # "panic"

\* The paths at the positions of the LRU queue.
QueuedPaths == {cache_queue[i] : i \in 1 .. Len(cache_queue)}

\* C36: after every cache operation the LRU queue holds exactly the paths
\* that have a cache entry, each of them once.
C36_QueueIsTheCachedPathsOnce ==
    /\ QueuedPaths = DOMAIN cache
    /\ Len(cache_queue) = Cardinality(DOMAIN cache)

\* C37: after every successful open_file of a path, a re-open after
\* close_file included, the DocumentState of the path has is_open = TRUE,
\* so that the next CloseFile of the path is accepted.
C37_OpenedFileIsOpen ==
    [][(ret'.op = "open_file" /\ ret'.res = "Ok") =>
          /\ Has(document_states', ret'.path)
          /\ document_states'[ret'.path].is_open]_vars

\* C38: the search that follows close_search, in the same mode or another,
\* with a query that extends the cancelled one or not, runs over all rows
\* of the workspace: when create_search succeeds after a cancel, the
\* matcher holds the rows of the mode of the search.  The cancelled search
\* is one that had indexed the rows itself, so that only the cancel can
\* have emptied the matcher.
C38_SearchAfterCancelHasAllRows ==
    [][(/\ search_ret'.n # search_ret.n
        /\ search_ret'.res = "Ok"
        /\ search_ret.reindex
        /\ ~is_searching) => indexed' = search_ret'.mode]_vars

\* The number of rows in a sequence of SearchResults messages.
RECURSIVE ItemsIn(_)
ItemsIn(messages) ==
    IF messages = <<>> THEN 0 ELSE Head(messages).items + ItemsIn(Tail(messages))

\* The rows one tick of the poller delivers, named by their rank in the
\* snapshot of the matcher: process_results walks matched_items from rank 0
\* on, and the snapshot of a search keeps the rows it has while it gains
\* others.
RowsOf(p) == 1 .. ItemsIn(p.messages)

\* C39: within one search no row is delivered twice: the batches of a tick
\* hold none of the rows that the batches of the tick before it held, when
\* both ticks report the same search.
C39_RowsDeliveredOnce ==
    [][(/\ clock' # clock
        /\ poll_ret.kind = "running"
        /\ search_began < clock) => RowsOf(poll_ret) \cap RowsOf(poll_ret') = {}]_vars

\* Message i on the wire of session s is an output or an error of terminal id.
IsOutputOf(s, i, id) ==
    /\ wire[s][i].tag \in {"TerminalOutput", "TerminalError"}
    /\ wire[s][i].terminal_id = id

\* C40: in the session that issues CreateTerminal, TerminalCreated for the
\* new terminal is written before any TerminalOutput or TerminalError of
\* that terminal: nothing of the terminal is on the session's wire while
\* its handler has not answered, and no TerminalCreated comes after an
\* output or error of its terminal.
C40_CreatedBeforeOutput ==
    \A s \in Sessions :
       /\ term_call[s].at # "select" =>
             \A i \in 1 .. Len(wire[s]) : ~IsOutputOf(s, i, term_call[s].id)
       /\ \A j \in 1 .. Len(wire[s]) :
             wire[s][j].tag = "TerminalCreated" =>
                \A i \in 1 .. j - 1 : ~IsOutputOf(s, i, wire[s][j].terminal_id)

\* A session wrote TerminalCreated while messages of the reader were
\* already waiting in its receiver, and wrote an output of the terminal
\* after it.
C40_Witness ==
    \E s \in Sessions : \E j \in 1 .. Len(wire[s]) :
       /\ wire[s][j].tag = "TerminalCreated"
       /\ wire[s][j].backlog > 0
       /\ \A k \in 1 .. Len(published) :
             published[k].terminal_id = wire[s][j].terminal_id
       /\ \E i \in j + 1 .. Len(wire[s]) : IsOutputOf(s, i, wire[s][j].terminal_id)

====
